---------------------------- MODULE Spec2Model ----------------------------
(***************************************************************************)
(* A model of yxhoo-transit-rs: the minute-precision timestamp codec       *)
(* (src/src/dt_minute_tz.rs), the request encoder (src/src/yxhoo.rs) and   *)
(* the response normalizer (src/src/parser.rs).                            *)
(*                                                                         *)
(* Text is a sequence of characters, each character a one-token string.    *)
(* The three Japanese characters the parsers look for are written as the   *)
(* tokens "ji" (U+6642), "kan" (U+9593) and "fun" (U+5206), the kanji and  *)
(* katakana of the transport keywords as tokens starting with j and k;     *)
(* each is three bytes of UTF-8, every other character is one byte.        *)
(***************************************************************************)
EXTENDS Integers, Sequences, FiniteSets, TLC

(***************************************************************************)
(* Characters and text                                                     *)
(***************************************************************************)
Digits == <<"0", "1", "2", "3", "4", "5", "6", "7", "8", "9">>

DigitSet == {Digits[i] : i \in 1..10}

MultiByte ==
    {"ji", "kan", "fun", "jTO", "jHO", "jKUU", "jRO", "jHI", "jKOU", "jKI",
     "jREN", "jRAKU", "jTAKA", "jSOKU", "jFUNE", "kFU", "kRA", "kI", "kTO",
     "kBA", "kSU", "kE", "kRI", "kCHOON"}

is_ascii_digit(c) == c \in DigitSet

is_whitespace(c) == c = " "

DigitVal(c) == (CHOOSE i \in 1..10 : Digits[i] = c) - 1

ByteLen(c) == IF c \in MultiByte THEN 3 ELSE 1

RECURSIVE str_len(_)
\* str::len: the length in bytes
str_len(s) == IF s = <<>> THEN 0 ELSE ByteLen(Head(s)) + str_len(Tail(s))

\* the characters of s that satisfy the digit test, in order
FilterDigits(s) == SelectSeq(s, is_ascii_digit)

RECURSIVE trim_start(_)
trim_start(s) ==
    IF s # <<>> /\ is_whitespace(Head(s)) THEN trim_start(Tail(s)) ELSE s

RECURSIVE trim_end(_)
trim_end(s) ==
    IF s # <<>> /\ is_whitespace(s[Len(s)])
    THEN trim_end(SubSeq(s, 1, Len(s) - 1))
    ELSE s

trim(s) == trim_end(trim_start(s))

\* whether pat occurs in s at character position p
MatchAt(s, pat, p) ==
    /\ p + Len(pat) - 1 <= Len(s)
    /\ \A j \in 1..Len(pat) : s[p + j - 1] = pat[j]

\* str::find: the character position of the first occurrence, 0 when none
find(s, pat) ==
    IF \E p \in 1..Len(s) : MatchAt(s, pat, p)
    THEN CHOOSE p \in 1..Len(s) :
            MatchAt(s, pat, p) /\ \A q \in 1..(p - 1) : ~MatchAt(s, pat, q)
    ELSE 0

contains(s, pat) == find(s, pat) # 0

starts_with(s, c) == s # <<>> /\ Head(s) = c

ends_with(s, c) == s # <<>> /\ s[Len(s)] = c

RECURSIVE NatDigits(_)
NatDigits(n) ==
    IF n < 10 THEN <<Digits[n + 1]>>
    ELSE NatDigits(n \div 10) \o <<Digits[(n % 10) + 1]>>

\* ToString for the integer types: a minus sign for negatives, no padding
to_string(n) == IF n < 0 THEN <<"-">> \o NatDigits(0 - n) ELSE NatDigits(n)

RECURSIVE ZeroPad(_, _)
ZeroPad(s, w) == IF Len(s) >= w THEN s ELSE ZeroPad(<<"0">> \o s, w)

(***************************************************************************)
(* Option and Result values: records of one shape                          *)
(***************************************************************************)
NoDT == [y |-> 0, mo |-> 0, d |-> 0, h |-> 0, mi |-> 0, s |-> 0, ns |-> 0, off |-> 0]

NoneDT == [some |-> FALSE, v |-> NoDT]

SomeDT(dt) == [some |-> TRUE, v |-> dt]

(***************************************************************************)
(* chrono: calendar, time of day, fixed offsets                            *)
(***************************************************************************)
IsLeap(y) == (y % 4 = 0 /\ y % 100 # 0) \/ y % 400 = 0

DaysInMonth(y, mo) ==
    IF mo = 2 THEN (IF IsLeap(y) THEN 29 ELSE 28)
    ELSE IF mo \in {4, 6, 9, 11} THEN 30 ELSE 31

\* NaiveDate::from_ymd_opt succeeds
ValidYmd(y, mo, d) ==
    /\ y >= -262143 /\ y <= 262142
    /\ mo >= 1 /\ mo <= 12
    /\ d >= 1 /\ d <= DaysInMonth(y, mo)

\* FixedOffset::east_opt succeeds: strictly within one day, in seconds
ValidOffset(off) == off > -86400 /\ off < 86400

\* DateTime::with_second(0) then with_nanosecond(0)
TruncateToMinute(dt) == [dt EXCEPT !.s = 0, !.ns = 0]


(***************************************************************************)
(* chrono: strftime-style formatting and parsing of the two patterns       *)
(* A pattern is a sequence of items: a numeric field of a maximal width, a *)
(* literal character, or the offset written "+HH:MM" (the item "%:z").     *)
(***************************************************************************)
Num(f, w) == [t |-> "num", f |-> f, w |-> w, c |-> ""]

Lit(c) == [t |-> "lit", f |-> "", w |-> 0, c |-> c]

OffColon == [t |-> "off", f |-> "", w |-> 0, c |-> ""]

\* "%Y-%m-%dT%H:%M%:z"
FMT_MIN_TZ ==
    <<Num("Y", 4), Lit("-"), Num("m", 2), Lit("-"), Num("d", 2), Lit("T"),
      Num("H", 2), Lit(":"), Num("M", 2), OffColon>>

\* "%Y-%m-%dT%H:%M:%S%:z"
FMT_SEC_TZ ==
    <<Num("Y", 4), Lit("-"), Num("m", 2), Lit("-"), Num("d", 2), Lit("T"),
      Num("H", 2), Lit(":"), Num("M", 2), Lit(":"), Num("S", 2), OffColon>>

\* "%Y": four digits, a sign and more digits outside 0..9999
FormatYear(y) ==
    IF y >= 0 /\ y <= 9999 THEN ZeroPad(NatDigits(y), 4)
    ELSE IF y > 9999 THEN <<"+">> \o NatDigits(y)
    ELSE <<"-">> \o ZeroPad(NatDigits(0 - y), 4)

\* "%:z": sign, hours and minutes; the offset's seconds are rounded to the
\* nearest minute
FormatOffsetColon(off) ==
    LET a == IF off < 0 THEN 0 - off ELSE off
        minutes == (a + 30) \div 60
    IN  <<IF off < 0 THEN "-" ELSE "+">>
          \o ZeroPad(NatDigits(minutes \div 60), 2) \o <<":">>
          \o ZeroPad(NatDigits(minutes % 60), 2)

FieldOf(dt, f) ==
    CASE f = "Y" -> dt.y
      [] f = "m" -> dt.mo
      [] f = "d" -> dt.d
      [] f = "H" -> dt.h
      [] f = "M" -> dt.mi
      [] OTHER -> dt.s

FormatItem(dt, it) ==
    CASE it.t = "lit" -> <<it.c>>
      [] it.t = "off" -> FormatOffsetColon(dt.off)
      [] OTHER -> IF it.f = "Y" THEN FormatYear(dt.y)
                  ELSE ZeroPad(NatDigits(FieldOf(dt, it.f)), it.w)

RECURSIVE FormatItems(_, _, _)
FormatItems(dt, fmt, k) ==
    IF k > Len(fmt) THEN <<>>
    ELSE FormatItem(dt, fmt[k]) \o FormatItems(dt, fmt, k + 1)

\* DateTime::format(fmt).to_string()
format(dt, fmt) == FormatItems(dt, fmt, 1)

RECURSIVE SkipWs(_, _)
SkipWs(s, pos) ==
    IF pos <= Len(s) /\ is_whitespace(s[pos]) THEN SkipWs(s, pos + 1) ELSE pos

RECURSIVE SkipColonWs(_, _)
SkipColonWs(s, pos) ==
    IF pos <= Len(s) /\ (s[pos] = ":" \/ is_whitespace(s[pos]))
    THEN SkipColonWs(s, pos + 1)
    ELSE pos

RECURSIVE CountDigits(_, _, _)
\* how many digits stand at pos, at most max
CountDigits(s, pos, max) ==
    IF max > 0 /\ pos <= Len(s) /\ is_ascii_digit(s[pos])
    THEN 1 + CountDigits(s, pos + 1, max - 1)
    ELSE 0

RECURSIVE SatValue(_, _, _, _)
\* the value of the n digits at pos, saturating above every year's range
SatValue(s, pos, n, acc) ==
    IF n = 0 THEN acc
    ELSE LET v == acc * 10 + DigitVal(s[pos])
         IN  SatValue(s, pos + 1, n - 1, IF v > 1000000 THEN 1000000 ELSE v)

Parsed0 ==
    [ok |-> TRUE, pos |-> 1, Y |-> 0, m |-> 0, d |-> 0, H |-> 0, M |-> 0,
     S |-> 0, off |-> 0]

SetField(st, f, v, pos) ==
    CASE f = "Y" -> [st EXCEPT !.Y = v, !.pos = pos]
      [] f = "m" -> [st EXCEPT !.m = v, !.pos = pos]
      [] f = "d" -> [st EXCEPT !.d = v, !.pos = pos]
      [] f = "H" -> [st EXCEPT !.H = v, !.pos = pos]
      [] f = "M" -> [st EXCEPT !.M = v, !.pos = pos]
      [] OTHER -> [st EXCEPT !.S = v, !.pos = pos]

\* a numeric item: leading white space is skipped, then 1..w digits; a year
\* may carry a sign, and then takes every digit that follows
ParseNum(s, st, it) ==
    LET p0 == SkipWs(s, st.pos)
        signed == it.f = "Y" /\ p0 <= Len(s) /\ s[p0] \in {"+", "-"}
        p1 == IF signed THEN p0 + 1 ELSE p0
        n == CountDigits(s, p1, IF signed THEN Len(s) ELSE it.w)
        v == SatValue(s, p1, n, 0)
    IN  IF n = 0 THEN [st EXCEPT !.ok = FALSE]
        ELSE SetField(st, it.f,
                      IF signed /\ s[p0] = "-" THEN 0 - v ELSE v, p1 + n)

\* the offset item: sign, two digits, any colons or spaces, two digits < 60
ParseOff(s, st) ==
    LET p0 == SkipWs(s, st.pos)
        p1 == p0 + 1
        p2 == SkipColonWs(s, p1 + 2)
    IN  IF /\ p0 <= Len(s) /\ s[p0] \in {"+", "-"}
           /\ CountDigits(s, p1, 2) = 2
           /\ CountDigits(s, p2, 2) = 2
           /\ SatValue(s, p2, 2, 0) < 60
        THEN LET secs == SatValue(s, p1, 2, 0) * 3600 + SatValue(s, p2, 2, 0) * 60
             IN  [st EXCEPT !.off = IF s[p0] = "-" THEN 0 - secs ELSE secs,
                            !.pos = p2 + 2]
        ELSE [st EXCEPT !.ok = FALSE]

ParseItem(s, st, it) ==
    CASE it.t = "lit" ->
            IF st.pos <= Len(s) /\ s[st.pos] = it.c
            THEN [st EXCEPT !.pos = st.pos + 1]
            ELSE [st EXCEPT !.ok = FALSE]
      [] it.t = "off" -> ParseOff(s, st)
      [] OTHER -> ParseNum(s, st, it)

RECURSIVE ParseItems(_, _, _, _)
ParseItems(s, st, fmt, k) ==
    IF ~st.ok \/ k > Len(fmt) THEN st
    ELSE ParseItems(s, ParseItem(s, st, fmt[k]), fmt, k + 1)

\* the parsed fields name a date, a time of day and an offset that exist; a
\* second of 60 is read as a leap second
Resolves(st) ==
    /\ ValidYmd(st.Y, st.m, st.d)
    /\ st.H < 24 /\ st.M < 60 /\ st.S <= 60
    /\ ValidOffset(st.off)

\* DateTime::parse_from_str(s, fmt): every item matches, nothing is left over
parse_from_str(s, fmt) ==
    LET st == ParseItems(s, Parsed0, fmt, 1)
    IN  IF st.ok /\ st.pos = Len(s) + 1 /\ Resolves(st)
        THEN SomeDT([y |-> st.Y, mo |-> st.m, d |-> st.d, h |-> st.H,
                     mi |-> st.M, s |-> IF st.S = 60 THEN 59 ELSE st.S,
                     ns |-> IF st.S = 60 THEN 1000000000 ELSE 0,
                     off |-> st.off])
        ELSE NoneDT

(***************************************************************************)
(* dt_minute_tz: the codec                                                 *)
(***************************************************************************)
\* a faulty serialize: the local time is written as if it were UTC
serialize_as_utc(dt) == format(TruncateToMinute([dt EXCEPT !.off = 0]), FMT_MIN_TZ)

\* serialize: truncate to the minute, then "%Y-%m-%dT%H:%M%:z"
serialize(dt) == format(TruncateToMinute(dt), FMT_MIN_TZ)

\* a faulty normalization: the trailing 'Z' is left in place
NormalizeZ_keep(s) == s

\* a trailing 'Z' becomes "+00:00"
NormalizeZ(s) ==
    IF ends_with(s, "Z")
    THEN SubSeq(s, 1, Len(s) - 1) \o <<"+", "0", "0", ":", "0", "0">>
    ELSE s

RECURSIVE CharsInBytes(_, _)
\* str::split_at(n): how many characters make up the first n bytes, -1 when
\* byte n is not a character boundary
CharsInBytes(s, n) ==
    IF n = 0 THEN 0
    ELSE IF s = <<>> \/ ByteLen(Head(s)) > n THEN -1
    ELSE LET k == CharsInBytes(Tail(s), n - ByteLen(Head(s)))
         IN  IF k < 0 THEN -1 ELSE k + 1

OkDT(dt) == [tag |-> "ok", v |-> dt, e |-> ""]

ErrDT(e) == [tag |-> "err", v |-> NoDT, e |-> e]

PanicDT == [tag |-> "panic", v |-> NoDT, e |-> ""]

\* the date-only form: YYYY-MM-DD followed directly by the offset
DateOnly(s) ==
    IF str_len(s) > 10
    THEN LET k == CharsInBytes(s, 10)
         IN  IF k < 0 THEN PanicDT
             ELSE LET date_part == SubSeq(s, 1, k)
                      rest == SubSeq(s, k + 1, Len(s))
                  IN  IF starts_with(rest, "+") \/ starts_with(rest, "-")
                      THEN LET injected ==
                                   date_part \o <<"T", "0", "0", ":", "0", "0">> \o rest
                               r == parse_from_str(injected, FMT_MIN_TZ)
                           IN  IF r.some THEN OkDT(TruncateToMinute(r.v))
                               ELSE ErrDT("parse")
                      ELSE ErrDT("timezone is required")
    ELSE ErrDT("timezone is required")

\* a faulty parse_str: a text without a zone marker is read as UTC
parse_str_zone_optional(s0) ==
    LET s == NormalizeZ(s0)
        r1 == parse_from_str(s, FMT_MIN_TZ)
        r2 == IF r1.some THEN r1 ELSE parse_from_str(s, FMT_SEC_TZ)
        r3 == parse_from_str(s \o <<"+", "0", "0", ":", "0", "0">>, FMT_SEC_TZ)
    IN  IF r2.some THEN OkDT(TruncateToMinute(r2.v))
        ELSE IF r3.some THEN OkDT(TruncateToMinute(r3.v))
        ELSE DateOnly(s)

parse_str(s0) ==
    LET s == NormalizeZ(s0)
        r1 == parse_from_str(s, FMT_MIN_TZ)
        r2 == IF r1.some THEN r1 ELSE parse_from_str(s, FMT_SEC_TZ)
    IN  IF r2.some THEN OkDT(TruncateToMinute(r2.v)) ELSE DateOnly(s)


(***************************************************************************)
(* u32 and i32: values keep their width.  A u32 is a pair of 16-bit halves *)
(* (value = hi * 65536 + lo), so that every value up to 4294967295 and     *)
(* every overflow of it can be computed.                                   *)
(***************************************************************************)
u32(n) == [hi |-> n \div 65536, lo |-> n % 65536]

\* the value of a u32 below 2^31
ToInt(u) == u.hi * 65536 + u.lo

IsSmall(u) == u.hi < 32768

\* a u32 compared with a small number
LessThan(u, n) == IsSmall(u) /\ ToInt(u) < n

\* u * k + c for small k and c: the wrapped result and whether it overflowed
MulAdd(u, k, c) ==
    LET lo2 == u.lo * k + c
        hi2 == u.hi * k + lo2 \div 65536
    IN  [ovf |-> hi2 >= 65536, v |-> [hi |-> hi2 % 65536, lo |-> lo2 % 65536]]

\* a + b: the wrapped result and whether it overflowed
Add(a, b) ==
    LET lo2 == a.lo + b.lo
        hi2 == a.hi + b.hi + lo2 \div 65536
    IN  [ovf |-> hi2 >= 65536, v |-> [hi |-> hi2 % 65536, lo |-> lo2 % 65536]]

NoneU32 == [some |-> FALSE, v |-> u32(0)]

SomeU32(u) == [some |-> TRUE, v |-> u]

RECURSIVE ParseDigitsU32(_, _)
\* the digits of s read into a u32, None on a character that is no digit and
\* on a value above u32::MAX
ParseDigitsU32(s, acc) ==
    IF s = <<>> THEN SomeU32(acc)
    ELSE IF ~is_ascii_digit(Head(s)) THEN NoneU32
    ELSE LET r == MulAdd(acc, 10, DigitVal(Head(s)))
         IN  IF r.ovf THEN NoneU32 ELSE ParseDigitsU32(Tail(s), r.v)

\* str::parse::<u32>: an optional '+', then at least one digit
parse_u32(s) ==
    LET body == IF starts_with(s, "+") THEN Tail(s) ELSE s
    IN  IF body = <<>> THEN NoneU32 ELSE ParseDigitsU32(body, u32(0))

NoneInt == [some |-> FALSE, v |-> 0]

SomeInt(n) == [some |-> TRUE, v |-> n]

RECURSIVE ParseDigitsI32(_, _, _)
\* the digits of s read into an i32 of the given sign, None outside
\* -2147483648 .. 2147483647
ParseDigitsI32(s, acc, neg) ==
    IF s = <<>> THEN SomeInt(acc)
    ELSE IF ~is_ascii_digit(Head(s)) THEN NoneInt
    ELSE LET dv == DigitVal(Head(s))
         IN  IF neg
             THEN IF acc < (-2147483647 - 1 + dv) \div 10 + (IF (-2147483647 - 1 + dv) % 10 = 0 THEN 0 ELSE 1)
                  THEN NoneInt
                  ELSE ParseDigitsI32(Tail(s), acc * 10 - dv, neg)
             ELSE IF acc > (2147483647 - dv) \div 10
                  THEN NoneInt
                  ELSE ParseDigitsI32(Tail(s), acc * 10 + dv, neg)

\* str::parse::<i32>: an optional '+' or '-', then at least one digit
parse_i32(s) ==
    LET signed == starts_with(s, "+") \/ starts_with(s, "-")
        body == IF signed THEN Tail(s) ELSE s
    IN  IF body = <<>> THEN NoneInt
        ELSE ParseDigitsI32(body, 0, starts_with(s, "-"))

(***************************************************************************)
(* The JSON tree, as far as the normalizer reads it.  A leaf is the value  *)
(* found at a path: missing, or of some JSON type; a text leaf carries its *)
(* characters, a boolean leaf its value.                                   *)
(***************************************************************************)
Missing == [k |-> "missing", s |-> <<>>, b |-> FALSE]

JNumber == [k |-> "num", s |-> <<>>, b |-> FALSE]

JString(s) == [k |-> "str", s |-> s, b |-> FALSE]

JBool(b) == [k |-> "bool", s |-> <<>>, b |-> b]

NoneStr == [some |-> FALSE, v |-> <<>>]

SomeStr(s) == [some |-> TRUE, v |-> s]

\* Value::as_str
as_str(leaf) == IF leaf.k = "str" THEN SomeStr(leaf.s) ELSE NoneStr

NoneBool == [some |-> FALSE, v |-> FALSE]

\* Value::as_bool
as_bool(leaf) == IF leaf.k = "bool" THEN [some |-> TRUE, v |-> leaf.b] ELSE NoneBool

\* Value::as_array: the items of a list node, None for anything else
as_array(node) ==
    IF node.k = "arr" THEN [some |-> TRUE, v |-> node.items]
    ELSE [some |-> FALSE, v |-> <<>>]

as_nonempty_str(leaf) ==
    LET r == as_str(leaf)
    IN  IF ~r.some THEN NoneStr
        ELSE IF trim(r.v) = <<>> THEN NoneStr ELSE SomeStr(trim(r.v))

parse_u32_loose(s) ==
    LET digits == FilterDigits(s)
    IN  IF digits = <<>> THEN NoneU32 ELSE parse_u32(digits)

(***************************************************************************)
(* parser.rs: the scalar parsers                                           *)
(***************************************************************************)
\* the unit markers of a duration: hours (two characters) and minutes (one)
Jikan == <<"ji", "kan">>

Fun == <<"fun">>

SomeDur(u) == [tag |-> "some", v |-> u]

NoneDur == [tag |-> "none", v |-> u32(0)]

PanicDur == [tag |-> "panic", v |-> u32(0)]

\* hours * 60 + minutes in u32: with overflow checks the first overflowing
\* operation panics, without them both operations wrap
HoursTimes60PlusMinutes(hours, minutes, checks) ==
    LET p == MulAdd(hours, 60, 0)
        q == Add(p.v, minutes)
    IN  IF checks /\ (p.ovf \/ q.ovf) THEN PanicDur ELSE SomeDur(q.v)

parse_ja_duration_minutes(s, checks) ==
    LET h_pos == find(s, Jikan)
    IN  IF h_pos # 0
        THEN LET hours == parse_u32(FilterDigits(SubSeq(s, 1, h_pos - 1)))
                 rest == SubSeq(s, h_pos + Len(Jikan), Len(s))
                 m_pos == find(rest, Fun)
                 m_str == IF m_pos # 0 THEN FilterDigits(SubSeq(rest, 1, m_pos - 1))
                          ELSE <<>>
                 minutes == IF m_str # <<>> THEN parse_u32(m_str) ELSE SomeU32(u32(0))
             IN  IF ~hours.some \/ ~minutes.some THEN NoneDur
                 ELSE HoursTimes60PlusMinutes(hours.v, minutes.v, checks)
        ELSE LET m_pos == find(s, Fun)
             IN  IF m_pos # 0
                 THEN LET r == parse_u32(FilterDigits(SubSeq(s, 1, m_pos - 1)))
                      IN  IF r.some THEN SomeDur(r.v) ELSE NoneDur
                 ELSE NoneDur

RemoveCommas(s) == SelectSeq(s, LAMBDA c : c # ",")

\* str::parse::<f64> on a plain decimal: an optional sign, digits with at most
\* one '.', at least one digit (exponents, "inf" and "nan" are not modelled)
IsDecimal(s) ==
    LET body == IF starts_with(s, "+") \/ starts_with(s, "-") THEN Tail(s) ELSE s
        dots == SelectSeq(body, LAMBDA c : c = ".")
    IN  /\ Len(dots) <= 1
        /\ FilterDigits(body) # <<>>
        /\ \A j \in 1..Len(body) : is_ascii_digit(body[j]) \/ body[j] = "."

NoneDist == [some |-> FALSE, num |-> <<>>, per_km |-> 1]

\* parse_distance_km: the number read, and by how much it is divided to give
\* kilometres
parse_distance_km(s) ==
    LET t == RemoveCommas(trim(s))
        n == Len(t)
    IN  IF n >= 2 /\ t[n - 1] = "k" /\ t[n] = "m"
        THEN LET num == trim(SubSeq(t, 1, n - 2))
             IN  IF IsDecimal(num) THEN [some |-> TRUE, num |-> num, per_km |-> 1]
                 ELSE NoneDist
        ELSE IF n >= 1 /\ t[n] = "m"
        THEN LET num == trim(SubSeq(t, 1, n - 1))
             IN  IF IsDecimal(num) THEN [some |-> TRUE, num |-> num, per_km |-> 1000]
                 ELSE NoneDist
        ELSE NoneDist

RECURSIVE split(_, _)
\* str::split(sep): the pieces between the separators, at least one piece
split(s, sep) ==
    IF \E p \in 1..Len(s) : s[p] = sep
    THEN LET p == CHOOSE p \in 1..Len(s) :
                      s[p] = sep /\ \A q \in 1..(p - 1) : s[q] # sep
         IN  <<SubSeq(s, 1, p - 1)>> \o split(SubSeq(s, p + 1, Len(s)), sep)
    ELSE <<s>>

NoneTime == [some |-> FALSE, h |-> 0, mi |-> 0]

\* NaiveTime::from_hms_opt(h, m, 0) on two u32
from_hms_opt(h, m) ==
    IF LessThan(h, 24) /\ LessThan(m, 60)
    THEN [some |-> TRUE, h |-> ToInt(h), mi |-> ToInt(m)]
    ELSE NoneTime

parse_hhmm(s) ==
    LET parts == split(s, ":")
        h == parse_u32(trim(parts[1]))
        m == IF Len(parts) >= 2 THEN parse_u32(trim(parts[2])) ELSE NoneU32
    IN  IF h.some /\ m.some /\ Len(parts) = 2 THEN from_hms_opt(h.v, m.v)
        ELSE NoneTime

(***************************************************************************)
(* parser.rs: timestamps                                                   *)
(***************************************************************************)
NoneDate == [some |-> FALSE, y |-> 0, mo |-> 0, d |-> 0]

\* NaiveDate::succ_opt: the next calendar day, None after the last date
succ_opt(y, mo, d) ==
    IF d < DaysInMonth(y, mo) THEN [some |-> TRUE, y |-> y, mo |-> mo, d |-> d + 1]
    ELSE IF mo < 12 THEN [some |-> TRUE, y |-> y, mo |-> mo + 1, d |-> 1]
    ELSE IF y < 262142 THEN [some |-> TRUE, y |-> y + 1, mo |-> 1, d |-> 1]
    ELSE NoneDate

\* a comparison that also holds for equal times of day
TimeBefore_or_equal(time, prev) ==
    time.h * 60 + time.mi <= prev.h * 60 + prev.mi

\* time < prev.time(): NaiveTime is ordered by hour, minute, second, fraction
TimeBefore(time, prev) ==
    \/ time.h < prev.h
    \/ time.h = prev.h /\ time.mi < prev.mi
    \/ time.h = prev.h /\ time.mi = prev.mi /\ (prev.s > 0 \/ prev.ns > 0)

\* a date that never moves to the next day
RolloverDate_same_day(time, prev) ==
    [some |-> TRUE, y |-> prev.y, mo |-> prev.mo, d |-> prev.d]

\* the date a time is put on, given the cursor prev
RolloverDate(time, prev) ==
    IF TimeBefore(time, prev) THEN succ_opt(prev.y, prev.mo, prev.d)
    ELSE [some |-> TRUE, y |-> prev.y, mo |-> prev.mo, d |-> prev.d]

time_on_date_with_rollover(base, time_str, last) ==
    LET time == parse_hhmm(time_str)
        date == IF last.some THEN RolloverDate(time, last.v)
                ELSE [some |-> TRUE, y |-> base.y, mo |-> base.mo, d |-> base.d]
    IN  IF ~time.some \/ ~date.some THEN NoneDT
        ELSE SomeDT([y |-> date.y, mo |-> date.mo, d |-> date.d, h |-> time.h,
                     mi |-> time.mi, s |-> 0, ns |-> 0, off |-> base.off])

\* FixedOffset::east_opt(9 * 3600)
jst_offset == 9 * 3600

NoPanic(r) == [panic |-> FALSE, r |-> r]

PanicSdt == [panic |-> TRUE, r |-> NoneDT]

\* m1 * 10 + m2 in u32
MinuteOfDigits(m1, m2) ==
    LET p == MulAdd(m1, 10, 0)
        q == Add(p.v, m2)
    IN  [ovf |-> p.ovf \/ q.ovf, v |-> q.v]

unwrap_or_0(r) == IF r.some THEN r.v ELSE u32(0)

StrU32(leaf) == IF as_str(leaf).some THEN parse_u32(as_str(leaf).v) ELSE NoneU32

\* build_search_datetime: the result, or a panic on arithmetic overflow when
\* the build checks overflow
build_search_datetime(page_query, checks) ==
    LET y == IF as_str(page_query.y).some THEN parse_i32(as_str(page_query.y).v)
             ELSE NoneInt
        m == StrU32(page_query.m)
        d == StrU32(page_query.d)
        hh == StrU32(page_query.hh)
        mm == MinuteOfDigits(unwrap_or_0(StrU32(page_query.m1)),
                             unwrap_or_0(StrU32(page_query.m2)))
    IN  IF ~y.some \/ ~m.some \/ ~d.some \/ ~hh.some THEN NoPanic(NoneDT)
        ELSE IF mm.ovf /\ checks THEN PanicSdt
        ELSE IF ~(IsSmall(m.v) /\ IsSmall(d.v) /\ ValidYmd(y.v, ToInt(m.v), ToInt(d.v)))
             THEN NoPanic(NoneDT)
        ELSE IF ~from_hms_opt(hh.v, mm.v).some THEN NoPanic(NoneDT)
        ELSE NoPanic(SomeDT([y |-> y.v, mo |-> ToInt(m.v), d |-> ToInt(d.v),
                             h |-> ToInt(hh.v), mi |-> ToInt(mm.v), s |-> 0,
                             ns |-> 0, off |-> jst_offset]))

(***************************************************************************)
(* parser.rs: segments                                                     *)
(***************************************************************************)
\* the keywords of infer_mode, in the order of the source: walking; air
\* route, flight, airplane; bus, shuttle bus, highway; ferry, ship
KwWalk == <<"jTO", "jHO">>

KwAirRoute == <<"jKUU", "jRO">>

KwFlight == <<"kFU", "kRA", "kI", "kTO">>

KwAirplane == <<"jHI", "jKOU", "jKI">>

KwBus == <<"kBA", "kSU">>

KwShuttleBus == <<"jREN", "jRAKU", "kBA", "kSU">>

KwHighway == <<"jTAKA", "jSOKU">>

KwFerry == <<"kFU", "kE", "kRI", "kCHOON">>

KwShip == <<"jFUNE">>

\* a mode that looks for the bus keywords before the flight keywords
infer_mode_bus_first(line) ==
    LET s == IF line.some THEN line.v ELSE <<>>
    IN  IF contains(s, KwWalk) THEN "walk"
        ELSE IF contains(s, KwBus) \/ contains(s, KwShuttleBus) \/ contains(s, KwHighway)
             THEN "bus"
        ELSE IF contains(s, KwAirRoute) \/ contains(s, KwFlight) \/ contains(s, KwAirplane)
             THEN "flight"
        ELSE IF contains(s, KwFerry) \/ contains(s, KwShip) THEN "ferry"
        ELSE IF s = <<>> THEN "unknown"
        ELSE "rail"

infer_mode(line) ==
    LET s == IF line.some THEN line.v ELSE <<>>
    IN  IF contains(s, KwWalk) THEN "walk"
        ELSE IF contains(s, KwAirRoute) \/ contains(s, KwFlight) \/ contains(s, KwAirplane)
             THEN "flight"
        ELSE IF contains(s, KwBus) \/ contains(s, KwShuttleBus) \/ contains(s, KwHighway)
             THEN "bus"
        ELSE IF contains(s, KwFerry) \/ contains(s, KwShip) THEN "ferry"
        ELSE IF s = <<>> THEN "unknown"
        ELSE "rail"

\* the text of the first entry of an edge's timeInfo list, trimmed, if any
FirstTime(edge) ==
    LET arr == as_array(edge.timeInfo)
    IN  IF arr.some /\ arr.v # <<>> THEN as_nonempty_str(arr.v[1].time) ELSE NoneStr

\* a bare time put on a date: nothing without a base date
Reconstruct(time_str, base_date, last) ==
    IF time_str.some /\ base_date.some
    THEN time_on_date_with_rollover(base_date.v, time_str.v, last)
    ELSE NoneDT

OrElse(a, b) == IF a.some THEN a ELSE b

UnwrapOrEmpty(r) == IF r.some THEN r.v ELSE <<>>

StrLoose(leaf) == IF as_str(leaf).some THEN parse_u32_loose(as_str(leaf).v) ELSE NoneU32

\* a pass that forgets the cursor when a time cannot be used
SegmentOf_resetting(cur, next, base_date, last) ==
    LET line == OrElse(as_nonempty_str(cur.railNameExcludingDestination),
                       as_nonempty_str(cur.railName))
        departure_time == Reconstruct(FirstTime(cur), base_date, last)
        arrival_time == Reconstruct(FirstTime(next), base_date, departure_time)
    IN  [seg |-> [mode |-> infer_mode(line),
                  from |-> UnwrapOrEmpty(as_str(cur.stationName)),
                  to |-> UnwrapOrEmpty(as_str(next.stationName)),
                  line |-> line,
                  destination |-> as_nonempty_str(cur.destination),
                  duration_minutes |-> StrLoose(cur.timeOnBoard),
                  fare_yen |-> StrLoose(cur.price),
                  departure_time |-> departure_time,
                  arrival_time |-> arrival_time],
         last |-> arrival_time]

\* a pass that takes the departure from the last entry of timeInfo
SegmentOf_departure_last_entry(cur, next, base_date, last) ==
    LET line == OrElse(as_nonempty_str(cur.railNameExcludingDestination),
                       as_nonempty_str(cur.railName))
        arr == as_array(cur.timeInfo)
        last_entry == IF arr.some /\ arr.v # <<>>
                      THEN as_nonempty_str(arr.v[Len(arr.v)].time) ELSE NoneStr
        departure_time == Reconstruct(last_entry, base_date, last)
        last1 == IF departure_time.some THEN departure_time ELSE last
        arrival_time == Reconstruct(FirstTime(next), base_date, last1)
        last2 == IF arrival_time.some THEN arrival_time ELSE last1
    IN  [seg |-> [mode |-> infer_mode(line),
                  from |-> UnwrapOrEmpty(as_str(cur.stationName)),
                  to |-> UnwrapOrEmpty(as_str(next.stationName)),
                  line |-> line,
                  destination |-> as_nonempty_str(cur.destination),
                  duration_minutes |-> StrLoose(cur.timeOnBoard),
                  fare_yen |-> StrLoose(cur.price),
                  departure_time |-> departure_time,
                  arrival_time |-> arrival_time],
         last |-> last2]

\* one pass of the loop of build_segments_from_edges over edges cur and next:
\* the segment, and the cursor after it
SegmentOf(cur, next, base_date, last) ==
    LET line == OrElse(as_nonempty_str(cur.railNameExcludingDestination),
                       as_nonempty_str(cur.railName))
        departure_time == Reconstruct(FirstTime(cur), base_date, last)
        last1 == IF departure_time.some THEN departure_time ELSE last
        arrival_time == Reconstruct(FirstTime(next), base_date, last1)
        last2 == IF arrival_time.some THEN arrival_time ELSE last1
    IN  [seg |-> [mode |-> infer_mode(line),
                  from |-> UnwrapOrEmpty(as_str(cur.stationName)),
                  to |-> UnwrapOrEmpty(as_str(next.stationName)),
                  line |-> line,
                  destination |-> as_nonempty_str(cur.destination),
                  duration_minutes |-> StrLoose(cur.timeOnBoard),
                  fare_yen |-> StrLoose(cur.price),
                  departure_time |-> departure_time,
                  arrival_time |-> arrival_time],
         last |-> last2]

\* a loop that needs three edges before it makes a segment
NumSegments_from_three(edges) == IF Len(edges) < 3 THEN 0 ELSE Len(edges) - 1

\* how often the loop runs: not at all below two edges, else edges.len() - 1
NumSegments(edges) == IF Len(edges) < 2 THEN 0 ELSE Len(edges) - 1

\* the summary of a feature; tag "panic" when the duration overflowed under
\* overflow checks
SummaryOf(feature, base_date, checks) ==
    LET departure_time == Reconstruct(as_nonempty_str(feature.departureTime),
                                      base_date, NoneDT)
        arrival_time == Reconstruct(as_nonempty_str(feature.arrivalTime),
                                    base_date, departure_time)
        dur == IF as_str(feature.totalTime).some
               THEN parse_ja_duration_minutes(as_str(feature.totalTime).v, checks)
               ELSE NoneDur
    IN  [panic |-> dur.tag = "panic",
         departure_time |-> departure_time,
         arrival_time |-> arrival_time,
         duration_minutes |-> [some |-> dur.tag = "some", v |-> dur.v],
         transfer_count |-> StrLoose(feature.transferCount),
         total_price_yen |-> StrLoose(feature.totalPrice),
         distance_km |-> IF as_str(feature.distance).some
                         THEN parse_distance_km(as_str(feature.distance).v)
                         ELSE NoneDist,
         is_fast |-> as_bool(feature.isFast),
         is_easy |-> as_bool(feature.isEasy),
         is_cheap |-> as_bool(feature.isCheap)]

NoSummary ==
    [panic |-> FALSE, departure_time |-> NoneDT, arrival_time |-> NoneDT,
     duration_minutes |-> NoneU32, transfer_count |-> NoneU32,
     total_price_yen |-> NoneU32, distance_km |-> NoneDist, is_fast |-> NoneBool, is_easy |-> NoneBool,
     is_cheap |-> NoneBool]

(***************************************************************************)
(* State                                                                   *)
(***************************************************************************)
VARIABLES
    overflow_checks, \* the build: TRUE when integer overflow panics, FALSE when it wraps
    c_pc,       \* codec run: "idle", "x", "str", "decoded", "panic", "reencoded"
    c_origin,   \* the run starts from a timestamp ("x"), a written text ("tpl") or any text ("raw")
    c_x,        \* the timestamp handed to serialize
    c_tpl,      \* how the text handed to deserialize was written
    c_in,       \* the text handed to deserialize
    c_res,      \* what deserialize returned
    c_out,      \* the text serialize gives for the decoded timestamp
    root,       \* the JSON tree handed to next_data_to_transit_dto
    pc,         \* normalizer: "idle", "start", "feature", "segments", "done", "err", "panic"
    from_name,  \* TransitDto.from
    to_name,    \* TransitDto.to
    search_date_time, \* TransitDto.search_date_time
    idx,        \* how many features have been turned into routes
    routes,     \* the routes pushed so far
    summary,    \* the summary of the feature being worked on
    i,          \* build_segments_from_edges: the loop index
    last_time,  \* build_segments_from_edges: the cursor
    out,        \* build_segments_from_edges: the segments pushed so far
    d_pc,       \* duration run: "idle", "in", "done", "panic"
    d_in,       \* the text handed to parse_ja_duration_minutes
    d_res,      \* what parse_ja_duration_minutes returned
    e_pc,       \* request run: "idle", "args", "sent", "echoed", "rebuilt", "panic"
    e_args,     \* the TransitArgs handed to transit
    e_q,        \* the query pairs transit sends
    e_pq,       \* the pageQuery object of the response
    e_sdt,      \* the search timestamp rebuilt from the response
    m_pc,       \* mode run: "idle", "edge", "done"
    m_cur,      \* the edge a segment starts at
    m_seg,      \* the segment made from it
    t_pc,       \* call: "idle", "call", "sent", "body", "extracted", "returned"
    t_fn,       \* the function called: "transit" or "suggest_places"
    t_net,      \* what the network and the server do to this call
    t_requests, \* how many requests the call has sent
    t_steps,    \* the steps the call has run, in order
    t_result    \* what the call returned: "none" while it runs

codecVars == <<c_pc, c_origin, c_x, c_tpl, c_in, c_res, c_out>>

normVars ==
    <<root, pc, from_name, to_name, search_date_time, idx, routes, summary, i,
      last_time, out>>

durVars == <<d_pc, d_in, d_res>>

encVars == <<e_pc, e_args, e_q, e_pq, e_sdt>>

modeVars == <<m_pc, m_cur, m_seg>>

callVars == <<t_pc, t_fn, t_net, t_requests, t_steps, t_result>>

vars == <<overflow_checks, codecVars, normVars, durVars, encVars, modeVars, callVars>>

PageQueryOf(y, m, d, hh, m1, m2) ==
    [y |-> y, m |-> m, d |-> d, hh |-> hh, m1 |-> m1, m2 |-> m2]

\* the arguments of a request: the names, the timestamp, the kind of date,
\* the criteria and the options, these two possibly omitted
ArgsOf(date, date_kind, criteria, options) ==
    [from |-> <<"A">>, to |-> <<"C">>, date |-> date, date_kind |-> date_kind,
     criteria |-> criteria, rank |-> 1, options |-> options]

NoneEnum == [some |-> FALSE, v |-> "none"]

SomeEnum(v) == [some |-> TRUE, v |-> v]

NoOptions ==
    [some |-> FALSE, ticket_preference |-> NoneEnum, seat_preference |-> NoneEnum,
     walking_speed |-> NoneEnum, available_means |-> <<>>]

SomeOptions(ticket, seat, ws, means) ==
    [some |-> TRUE, ticket_preference |-> ticket, seat_preference |-> seat,
     walking_speed |-> ws, available_means |-> means]

NoArgs == ArgsOf(NoDT, "DepartureTime", NoneEnum, NoOptions)

DurIdle == d_pc = "idle" /\ d_in = <<>> /\ d_res = NoneDur

EncIdle ==
    /\ e_pc = "idle" /\ e_args = NoArgs /\ e_q = <<>>
    /\ e_pq = PageQueryOf(Missing, Missing, Missing, Missing, Missing, Missing)
    /\ e_sdt = NoneDT


MissingNode == [k |-> "missing", items |-> <<>>]

RootOf(page_query, featureInfoList) ==
    [displayFrom |-> JString(<<"A">>), displayTo |-> JString(<<"C">>),
     queryFrom |-> JString(<<"a">>), queryTo |-> JString(<<"c">>),
     pageQuery |-> page_query,
     featureInfoList |-> featureInfoList]

NoRoot == RootOf(PageQueryOf(Missing, Missing, Missing, Missing, Missing, Missing),
                 MissingNode)

NormIdle ==
    /\ root = NoRoot /\ pc = "idle" /\ from_name = <<>> /\ to_name = <<>>
    /\ search_date_time = NoneDT /\ idx = 0 /\ routes = <<>>
    /\ summary = NoSummary /\ i = 0 /\ last_time = NoneDT /\ out = <<>>

\* an edge without any field
NoEdge ==
    [stationName |-> Missing, railNameExcludingDestination |-> Missing,
     railName |-> Missing, destination |-> Missing, timeOnBoard |-> Missing,
     price |-> Missing, timeInfo |-> MissingNode]

ModeIdle == m_pc = "idle" /\ m_cur = NoEdge /\ m_seg = SegmentOf(NoEdge, NoEdge, NoneDT, NoneDT).seg

\* what happens to a call on the network: whether the request and the
\* reading of the body succeed, the body, the JSON tree its JSON text denotes,
\* and whether that JSON has the shape of a suggest response
NetOf(send, read, body, tree, suggest_shape) ==
    [send |-> send, read |-> read, body |-> body, root |-> tree,
     suggest_shape |-> suggest_shape]

CallIdle ==
    /\ t_pc = "idle" /\ t_fn = "none"
    /\ t_net = NetOf("fail", "fail", <<>>, NoRoot, FALSE)
    /\ t_requests = 0 /\ t_steps = <<>> /\ t_result = "none"


(***************************************************************************)
(* The codec's inputs                                                      *)
(***************************************************************************)
\* dates that exist: an ordinary day, a leap day, the last day of a year
CodecDates ==
    {[y |-> 2025, mo |-> 12, d |-> 18], [y |-> 2024, mo |-> 2, d |-> 29],
     [y |-> 2025, mo |-> 12, d |-> 31]}

\* dates that do not exist
BadDates == {[y |-> 2025, mo |-> 2, d |-> 30], [y |-> 2025, mo |-> 13, d |-> 1]}

CodecTimes == {[h |-> 9, mi |-> 30], [h |-> 0, mi |-> 0], [h |-> 23, mi |-> 59]}

\* times of day that do not exist
BadTimes == {[h |-> 24, mi |-> 0], [h |-> 23, mi |-> 60]}

\* offsets in seconds east of UTC: +09:00, UTC, -05:30, and two that are not
\* a whole number of minutes
WholeMinuteOffsets == {32400, 0, -19800}

CodecOffsets == WholeMinuteOffsets \cup {32430, -3599}

Timestamps ==
    {[y |-> dd.y, mo |-> dd.mo, d |-> dd.d, h |-> tt.h, mi |-> tt.mi,
      s |-> ss, ns |-> nn, off |-> oo] :
        dd \in CodecDates, tt \in CodecTimes, ss \in {0, 45, 59},
        nn \in {0, 500000000}, oo \in CodecOffsets}

\* the zone markers a text may end in; none is the empty text
ZoneNone == <<>>

ZoneZ == <<"Z">>

ZoneUtc == <<"+", "0", "0", ":", "0", "0">>

ZoneJst == <<"+", "0", "9", ":", "0", "0">>

ZoneWest == <<"-", "0", "5", ":", "3", "0">>

Zones == {ZoneNone, ZoneZ, ZoneUtc, ZoneJst, ZoneWest}

\* a text is written from a date, the separator of the date fields, the
\* separator before the time ("none": no time of day is written), a time, the
\* separator of the time fields, seconds (-1: not written) and a zone marker
TimedTemplates ==
    {[date |-> dd, dsep |-> ds, tsep |-> ts, time |-> tt, csep |-> cs,
      sec |-> ss, zone |-> zz] :
        dd \in CodecDates \cup BadDates, ds \in {"-", "/"}, ts \in {"T", " "},
        tt \in (CodecTimes \ {[h |-> 23, mi |-> 59]}) \cup BadTimes,
        cs \in {":", "-"}, ss \in {-1, 45, 60, 61}, zz \in Zones}

DateOnlyTemplates ==
    {[date |-> dd, dsep |-> ds, tsep |-> "none", time |-> [h |-> 0, mi |-> 0],
      csep |-> ":", sec |-> -1, zone |-> zz] :
        dd \in CodecDates \cup BadDates, ds \in {"-", "/"}, zz \in Zones}

Templates == TimedTemplates \cup DateOnlyTemplates

NoTemplate ==
    [date |-> [y |-> 0, mo |-> 0, d |-> 0], dsep |-> "", tsep |-> "",
     time |-> [h |-> 0, mi |-> 0], csep |-> "", sec |-> -1, zone |-> <<>>]

Pad2(n) == ZeroPad(NatDigits(n), 2)

\* the text a template writes
Text(tp) ==
    ZeroPad(NatDigits(tp.date.y), 4) \o <<tp.dsep>> \o Pad2(tp.date.mo)
      \o <<tp.dsep>> \o Pad2(tp.date.d)
      \o (IF tp.tsep = "none" THEN <<>>
          ELSE <<tp.tsep>> \o Pad2(tp.time.h) \o <<tp.csep>> \o Pad2(tp.time.mi)
                 \o (IF tp.sec < 0 THEN <<>> ELSE <<tp.csep>> \o Pad2(tp.sec)))
      \o tp.zone

\* a date directly followed by an offset
DateOnlyJst == <<"2", "0", "2", "5", "-", "1", "2", "-", "1", "8">> \o ZoneJst

\* any text at all: the date-only text with one character replaced by a
\* character of one or of three bytes, and texts of three-byte characters only
RawTexts ==
    {[DateOnlyJst EXCEPT ![p] = c] : p \in 1..Len(DateOnlyJst), c \in {"ji", "x"}}
      \cup {[k \in 1..n |-> "kan"] : n \in 0..4}

(***************************************************************************)
(* Codec runs: serialize a timestamp, deserialize a text, serialize again  *)
(***************************************************************************)
CodecIdle ==
    /\ c_pc = "idle" /\ c_origin = "none" /\ c_x = NoDT /\ c_tpl = NoTemplate
    /\ c_in = <<>> /\ c_res = ErrDT("") /\ c_out = <<>>

CodecInit ==
    /\ overflow_checks = FALSE
    /\ NormIdle /\ DurIdle /\ EncIdle /\ ModeIdle /\ CallIdle
    /\ c_res = ErrDT("") /\ c_out = <<>>
    /\ \/ /\ c_origin = "x" /\ c_pc = "x"
          /\ c_x \in Timestamps
          /\ c_tpl = NoTemplate /\ c_in = <<>>
       \/ /\ c_origin = "tpl" /\ c_pc = "str"
          /\ c_x = NoDT
          /\ c_tpl \in Templates /\ c_in = Text(c_tpl)
       \/ /\ c_origin = "raw" /\ c_pc = "str"
          /\ c_x = NoDT /\ c_tpl = NoTemplate
          /\ c_in \in RawTexts

Serialize ==
    /\ c_pc = "x"
    /\ c_in' = serialize(c_x)
    /\ c_pc' = "str"
    /\ UNCHANGED <<c_origin, c_x, c_tpl, c_res, c_out, overflow_checks, normVars, durVars, encVars, modeVars,
                   callVars>>

Deserialize ==
    /\ c_pc = "str"
    /\ c_res' = parse_str(c_in)
    /\ c_pc' = IF c_res'.tag = "panic" THEN "panic" ELSE "decoded"
    /\ UNCHANGED <<c_origin, c_x, c_tpl, c_in, c_out, overflow_checks, normVars, durVars, encVars, modeVars,
                   callVars>>

Reserialize ==
    /\ c_pc = "decoded" /\ c_res.tag = "ok"
    /\ c_out' = serialize(c_res.v)
    /\ c_pc' = "reencoded"
    /\ UNCHANGED <<c_origin, c_x, c_tpl, c_in, c_res, overflow_checks, normVars, durVars, encVars, modeVars,
                   callVars>>

CodecNext == Serialize \/ Deserialize \/ Reserialize

SpecCodec == CodecInit /\ [][CodecNext]_vars


(***************************************************************************)
(* The normalizer's inputs: JSON trees                                     *)
(* A list node is missing, of another JSON type, or a list of items.       *)
(***************************************************************************)
MaxEdges == 3

MaxFeatures == 2

NotAList == [k |-> "num", items |-> <<>>]

Arr(items) == [k |-> "arr", items |-> items]

\* all sequences over S of length at most n
SeqUpTo(S, n) == UNION {[1..k -> S] : k \in 0..n}

\* the bare time "HH:MM"
HHMM(h, mi) == Pad2(h) \o <<":">> \o Pad2(mi)

\* what an edge may carry as its time: three bare times, nothing, blanks
EdgeTimes ==
    {JString(HHMM(8, 50)), JString(HHMM(8, 55)), JString(HHMM(8, 40)), Missing,
     JString(<<" ">>)}

\* times of no use next to times of use: nothing, the empty text, an hour
\* that does not exist, a text that is no time
UnusableEdgeTimes ==
    {JString(HHMM(8, 55)), JString(HHMM(8, 40)), Missing, JString(<<>>),
     JString(HHMM(25, 0)), JString(<<"x">>)}

StationNames == <<"A", "B", "C", "D", "E">>

EdgeOf(name, time) ==
    [stationName |-> JString(<<name>>),
     railNameExcludingDestination |-> Missing,
     railName |-> JString(<<"L", "1">>),
     destination |-> Missing,
     timeOnBoard |-> JString(<<"5", "fun">>),
     price |-> Missing,
     timeInfo |-> Arr(<<[time |-> time]>>)]

\* the edges that carry the given times, named A, B, C, ...
EdgesOf(times) == [j \in 1..Len(times) |-> EdgeOf(StationNames[j], times[j])]

OneHourTwoMinutes == <<"1", "ji", "kan", "2", "fun">>

\* 71582789 hours: times 60 it is 4294967340, above u32::MAX
HugeHourDigits == <<"7", "1", "5", "8", "2", "7", "8", "9">>

HugeHours == HugeHourDigits \o <<"ji", "kan">>

FeatureOf(edgeInfoList, totalTime) ==
    [departureTime |-> JString(HHMM(8, 50)),
     arrivalTime |-> JString(HHMM(8, 40)),
     totalTime |-> totalTime,
     transferCount |-> JString(<<"1">>),
     totalPrice |-> JString(<<"1", ",", "2", "3", "4">>),
     distance |-> JString(<<"1", "2", ".", "3", "k", "m">>),
     isFast |-> JBool(TRUE), isEasy |-> Missing, isCheap |-> JNumber,
     edgeInfoList |-> edgeInfoList]

NatLeaf(n) == JString(NatDigits(n))

\* search dates: the last day of a year, the day before a leap day, a day in
\* the middle of a month
SearchDates ==
    {[y |-> 2025, mo |-> 12, d |-> 31], [y |-> 2024, mo |-> 2, d |-> 28],
     [y |-> 2025, mo |-> 6, d |-> 15]}

GoodPageQuery(date) ==
    PageQueryOf(NatLeaf(date.y), NatLeaf(date.mo), NatLeaf(date.d), NatLeaf(8),
                NatLeaf(4), NatLeaf(7))

\* one route whose edges carry every choice of times, on every search date
TimesFamily ==
    {RootOf(GoodPageQuery(date),
            Arr(<<FeatureOf(Arr(EdgesOf(times)), JString(OneHourTwoMinutes))>>)) :
        date \in SearchDates, times \in SeqUpTo(EdgeTimes, MaxEdges)}

\* one route of three edges that carry every choice of usable and unusable
\* times
UnusableTimesFamily ==
    {RootOf(GoodPageQuery([y |-> 2025, mo |-> 12, d |-> 31]),
            Arr(<<FeatureOf(Arr(EdgesOf(times)), JString(OneHourTwoMinutes))>>)) :
        times \in [1..3 -> UnusableEdgeTimes]}

\* what a search-date field may be when it is of no use
UnusableLeaves == {Missing, JNumber, JString(<<"x">>), JString(<<>>)}

\* the page queries: every field right, one of y, m, d, hh of no use, or a
\* month or an hour that does not exist
PageQueries ==
    LET g == GoodPageQuery([y |-> 2025, mo |-> 12, d |-> 31])
    IN  {g, [g EXCEPT !.m = NatLeaf(13)], [g EXCEPT !.hh = NatLeaf(24)]}
          \cup {[g EXCEPT !.y = u] : u \in UnusableLeaves}
          \cup {[g EXCEPT !.m = u] : u \in UnusableLeaves}
          \cup {[g EXCEPT !.d = u] : u \in UnusableLeaves}
          \cup {[g EXCEPT !.hh = u] : u \in UnusableLeaves}

\* the tens digit of the minute: a digit, missing, or 999999999
MinuteTens == {NatLeaf(4), Missing, NatLeaf(999999999)}

ExampleTimes == <<JString(HHMM(8, 50)), JString(HHMM(8, 55)), JString(HHMM(8, 40))>>

\* every page query against the route A 08:50, B 08:55, C 08:40
AnchorFamily ==
    {RootOf([pq EXCEPT !.m1 = m1],
            Arr(<<FeatureOf(Arr(EdgesOf(ExampleTimes)), JString(tt))>>)) :
        pq \in PageQueries, m1 \in MinuteTens, tt \in {OneHourTwoMinutes, HugeHours}}

\* features of several shapes: no edge list, one edge, two edges with fields
\* of the wrong type and numbers that do not fit, three edges of which the
\* middle one lists two times
ShapeFeatures ==
    {FeatureOf(MissingNode, JString(OneHourTwoMinutes)),
     FeatureOf(Arr(EdgesOf(<<JString(HHMM(8, 50))>>)), Missing),
     [FeatureOf(Arr(EdgesOf(<<JString(HHMM(23, 50)), JString(HHMM(0, 10))>>)),
                JString(<<"x">>))
        EXCEPT !.transferCount = JString(<<"9", "9", "9", "9", "9", "9", "9", "9", "9", "9", "9">>),
               !.totalPrice = JNumber,
               !.departureTime = JString(HHMM(23, 50)),
               !.arrivalTime = JString(<<"2", "5", ":", "0", "0">>)],
     FeatureOf(Arr(<<EdgeOf("A", JString(HHMM(23, 50))),
                     [EdgeOf("B", Missing) EXCEPT
                        !.timeInfo = Arr(<<[time |-> JString(HHMM(0, 10))],
                                           [time |-> JString(HHMM(0, 20))]>>)],
                     EdgeOf("C", JString(HHMM(0, 30)))>>),
               JString(OneHourTwoMinutes))}

\* the feature list missing, of another type, or of every length
ShapeFamily ==
    {[RootOf(GoodPageQuery([y |-> 2025, mo |-> 12, d |-> 31]), fl)
        EXCEPT !.displayFrom = df, !.queryFrom = qf] :
        fl \in {MissingNode, NotAList}
                 \cup {Arr(fs) : fs \in SeqUpTo(ShapeFeatures, MaxFeatures)},
        df \in {JString(<<"A">>), Missing}, qf \in {JString(<<"a">>), JNumber}}

Roots == TimesFamily \cup UnusableTimesFamily \cup AnchorFamily \cup ShapeFamily

(***************************************************************************)
(* next_data_to_transit_dto, step by step                                  *)
(***************************************************************************)
NormInit ==
    /\ overflow_checks \in BOOLEAN
    /\ root \in Roots
    /\ pc = "start" /\ from_name = <<>> /\ to_name = <<>>
    /\ search_date_time = NoneDT /\ idx = 0 /\ routes = <<>>
    /\ summary = NoSummary /\ i = 0 /\ last_time = NoneDT /\ out = <<>>
    /\ CodecIdle /\ DurIdle /\ EncIdle /\ ModeIdle /\ CallIdle

features == UnwrapOrEmpty(as_array(root.featureInfoList))

\* the edges of the feature being worked on: none when the list is missing
edges == UnwrapOrEmpty(as_array(features[idx + 1].edgeInfoList))

\* a rank that starts at zero
RankOf_zero_based(n) == n

\* (idx as u32) + 1
RankOf(n) == n + 1

\* the names, the search timestamp and the feature list (lines 106-128)
Start ==
    /\ pc = "start"
    /\ LET sdt == build_search_datetime(root.pageQuery, overflow_checks)
       IN  /\ from_name' = UnwrapOrEmpty(OrElse(as_str(root.displayFrom),
                                                as_str(root.queryFrom)))
           /\ to_name' = UnwrapOrEmpty(OrElse(as_str(root.displayTo),
                                              as_str(root.queryTo)))
           /\ search_date_time' = sdt.r
           /\ pc' = IF sdt.panic THEN "panic"
                    ELSE IF ~as_array(root.featureInfoList).some THEN "err"
                    ELSE "feature"
    /\ UNCHANGED <<root, idx, routes, summary, i, last_time, out,
                   overflow_checks, codecVars,
                   durVars, encVars, modeVars,
                   callVars>>

\* the summary of the next feature, and the entry into
\* build_segments_from_edges (lines 130-167, 186-196)
Summarize ==
    /\ pc = "feature" /\ idx < Len(features)
    /\ summary' = SummaryOf(features[idx + 1], search_date_time, overflow_checks)
    /\ pc' = IF summary'.panic THEN "panic" ELSE "segments"
    /\ i' = 0 /\ last_time' = NoneDT /\ out' = <<>>
    /\ UNCHANGED <<root, from_name, to_name, search_date_time, idx, routes,
                   overflow_checks, codecVars,
                   durVars, encVars, modeVars,
                   callVars>>

\* one pass of the loop of build_segments_from_edges (lines 198-270)
BuildSegment ==
    /\ pc = "segments" /\ i < NumSegments(edges)
    /\ LET r == SegmentOf(edges[i + 1], edges[i + 2], search_date_time, last_time)
       IN  /\ out' = Append(out, r.seg)
           /\ last_time' = r.last
    /\ i' = i + 1
    /\ UNCHANGED <<root, pc, from_name, to_name, search_date_time, idx, routes,
                   summary, overflow_checks, codecVars,
                   durVars, encVars, modeVars,
                   callVars>>

\* the loop is over: the route is pushed (lines 171-175, 272)
PushRoute ==
    /\ pc = "segments" /\ i >= NumSegments(edges)
    /\ routes' = Append(routes, [rank |-> RankOf(idx), summary |-> summary,
                                 segments |-> out])
    /\ idx' = idx + 1
    /\ pc' = "feature"
    /\ UNCHANGED <<root, from_name, to_name, search_date_time, summary, i,
                   last_time, out, overflow_checks, codecVars,
                   durVars, encVars, modeVars,
                   callVars>>

\* every feature is a route: Ok(TransitDto) (lines 178-183)
Return ==
    /\ pc = "feature" /\ idx = Len(features)
    /\ pc' = "done"
    /\ UNCHANGED <<root, from_name, to_name, search_date_time, idx, routes,
                   summary, i, last_time, out, overflow_checks, codecVars,
                   durVars, encVars, modeVars,
                   callVars>>

NormNext == Start \/ Summarize \/ BuildSegment \/ PushRoute \/ Return

SpecNorm == NormInit /\ [][NormNext]_vars

(***************************************************************************)
(* parse_ja_duration_minutes, run on its own                               *)
(***************************************************************************)
\* digit runs: small ones, one with leading zeros, the largest u32 and the
\* one after it, the largest hour count whose minutes fit and the one after
DigitRuns ==
    {<<"0">>, <<"1">>, <<"2">>, <<"5", "9">>, <<"0", "0", "7">>,
     NatDigits(71582788), HugeHourDigits,
     <<"4", "2", "9", "4", "9", "6", "7", "2", "9", "5">>,
     <<"4", "2", "9", "4", "9", "6", "7", "2", "9", "6">>}

\* texts of none of the three forms: no marker, no digits before a marker,
\* the markers in the other order, text around the digits
OtherDurationTexts ==
    {<<>>, <<"x">>, <<"1", "2">>, <<"1", "h">>,
     Jikan, Fun, Jikan \o Fun, Jikan \o <<"5">> \o Fun, <<"1">> \o Jikan \o Fun,
     <<"5">> \o Fun \o <<"3">> \o Jikan,
     <<"a", "1", "b">> \o Jikan \o <<"x", "2", "y">> \o Fun \o <<"z">>,
     <<"x", "4">> \o Fun, <<"4">> \o Fun \o <<"x">>, <<"1", " ">> \o Jikan,
     <<"-", "1">> \o Fun, <<"1">> \o <<"ji">> \o <<"2">> \o Fun}

DurationTexts ==
    {h \o Jikan \o m \o Fun : h \in DigitRuns, m \in DigitRuns}
      \cup {m \o Fun : m \in DigitRuns}
      \cup {h \o Jikan : h \in DigitRuns}
      \cup OtherDurationTexts

DurInit ==
    /\ overflow_checks \in BOOLEAN
    /\ d_pc = "in" /\ d_in \in DurationTexts /\ d_res = NoneDur
    /\ CodecIdle /\ NormIdle /\ EncIdle /\ ModeIdle /\ CallIdle

ParseDuration ==
    /\ d_pc = "in"
    /\ d_res' = parse_ja_duration_minutes(d_in, overflow_checks)
    /\ d_pc' = IF d_res'.tag = "panic" THEN "panic" ELSE "done"
    /\ UNCHANGED <<d_in, overflow_checks, codecVars, normVars, encVars, modeVars,
                   callVars>>

DurNext == ParseDuration

SpecDur == DurInit /\ [][DurNext]_vars

(***************************************************************************)
(* The request encoder                                                     *)
(***************************************************************************)
Chars_normal == <<"n", "o", "r", "m", "a", "l">>

Chars_ic == <<"i", "c">>

TransitTicketPreference_as_str(t) == IF t = "Normal" THEN Chars_normal ELSE Chars_ic

TransitTicketPreference_default == "Normal"

SeatPreference_as_u32(s) ==
    CASE s = "NonReserved" -> 1 [] s = "Reserved" -> 2 [] s = "GreenCar" -> 3

SeatPreference_default == "NonReserved"

WalkingSpeed_as_u32(w) ==
    CASE w = "Fast" -> 1 [] w = "Brisk" -> 2 [] w = "Leisurely" -> 3 [] w = "Slow" -> 4

\* a default walking speed of brisk
WalkingSpeed_default_brisk == "Brisk"

WalkingSpeed_default == "Leisurely"

AvailableMeans_as_str(m) ==
    CASE m = "Airlane" -> "al" [] m = "Shinkansen" -> "shin"
      [] m = "PaidExpress" -> "ex" [] m = "HighwayBus" -> "hb"
      [] m = "Bus" -> "lb" [] m = "Ferry" -> "sr"

default_available_means ==
    <<"Airlane", "Shinkansen", "PaidExpress", "HighwayBus", "Bus", "Ferry">>

DateKind_as_u32(k) ==
    CASE k = "DepartureTime" -> 1 [] k = "LastTrain" -> 2 [] k = "FirstTrain" -> 3
      [] k = "ArrivalTime" -> 4 [] k = "NotSpecified" -> 5

TransitCriteria_as_u32(c) ==
    CASE c = "EarliestArrival" -> 0 [] c = "LowestCost" -> 1 [] c = "FewestTransfers" -> 2

TransitCriteria_default == "EarliestArrival"

\* the ones digit first
minute_digits_ones_first(min) == [m1 |-> min % 10, m2 |-> min \div 10]

minute_digits(min) == [m1 |-> min \div 10, m2 |-> min % 10]

Pair(key, value) == [key |-> key, value |-> value]

MeansKeys == <<"al", "shin", "ex", "hb", "lb", "sr">>

\* the pairs pushed for the options
OptionPairs(options) ==
    IF options.some
    THEN (IF options.ticket_preference.some
          THEN <<Pair("ticket", TransitTicketPreference_as_str(options.ticket_preference.v))>>
          ELSE <<>>)
         \o (IF options.seat_preference.some
             THEN <<Pair("expkind", to_string(SeatPreference_as_u32(options.seat_preference.v)))>>
             ELSE <<>>)
         \o (IF options.walking_speed.some
             THEN <<Pair("ws", to_string(WalkingSpeed_as_u32(options.walking_speed.v)))>>
             ELSE <<>>)
         \o [j \in 1..6 |->
               Pair(MeansKeys[j],
                    IF MeansKeys[j] \in {AvailableMeans_as_str(options.available_means[k]) :
                                           k \in 1..Len(options.available_means)}
                    THEN <<"1">> ELSE <<"0">>)]
    ELSE <<Pair("ticket", TransitTicketPreference_as_str(TransitTicketPreference_default)),
           Pair("expkind", to_string(SeatPreference_as_u32(SeatPreference_default))),
           Pair("ws", to_string(WalkingSpeed_as_u32(WalkingSpeed_default)))>>
         \o [j \in 1..6 |-> Pair(MeansKeys[j], <<"1">>)]

\* the query pairs of transit, in the order they are pushed
QueryOf(args) ==
    LET dt == args.date
        md == minute_digits(dt.mi)
        s == TransitCriteria_as_u32(IF args.criteria.some THEN args.criteria.v
                                    ELSE TransitCriteria_default)
    IN  <<Pair("from", args.from), Pair("to", args.to),
          Pair("y", to_string(dt.y)), Pair("m", to_string(dt.mo)),
          Pair("d", to_string(dt.d)), Pair("hh", to_string(dt.h)),
          Pair("m1", to_string(md.m1)), Pair("m2", to_string(md.m2)),
          Pair("type", to_string(DateKind_as_u32(args.date_kind))),
          Pair("s", to_string(s)), Pair("no", to_string(args.rank))>>
          \o OptionPairs(args.options)

\* the positions of a key among the pairs
PositionsOf(q, key) == {p \in 1..Len(q) : q[p].key = key}

\* the value sent under a key, as a JSON leaf: missing when it was not sent
LeafOf(q, key) ==
    IF PositionsOf(q, key) = {} THEN Missing
    ELSE JString(q[CHOOSE p \in PositionsOf(q, key) :
                        \A r \in PositionsOf(q, key) : p <= r].value)

\* a pageQuery object that repeats the six date fields of the request
EchoOf(q) ==
    PageQueryOf(LeafOf(q, "y"), LeafOf(q, "m"), LeafOf(q, "d"), LeafOf(q, "hh"),
                LeafOf(q, "m1"), LeafOf(q, "m2"))

EncDates ==
    {[y |-> 2024, mo |-> 2, d |-> 29], [y |-> 2025, mo |-> 12, d |-> 31],
     [y |-> 999, mo |-> 6, d |-> 9]}

EncTimes ==
    {[h |-> 0, mi |-> 0, s |-> 0], [h |-> 23, mi |-> 59, s |-> 30],
     [h |-> 9, mi |-> 47, s |-> 0], [h |-> 9, mi |-> 7, s |-> 0]}

EncOffsets == {9 * 3600, 0, 0 - 5 * 3600}

RequestDates ==
    {[y |-> dd.y, mo |-> dd.mo, d |-> dd.d, h |-> tt.h, mi |-> tt.mi, s |-> tt.s,
      ns |-> 0, off |-> off] : dd \in EncDates, tt \in EncTimes, off \in EncOffsets}

RequestOptions ==
    {NoOptions}
      \cup {SomeOptions(ticket, seat, ws, means) :
              ticket \in {NoneEnum, SomeEnum("IC"), SomeEnum("Normal")},
              seat \in {NoneEnum, SomeEnum("GreenCar")},
              ws \in {NoneEnum, SomeEnum("Slow")},
              means \in {default_available_means, <<>>, <<"Bus", "Shinkansen">>,
                         <<"Shinkansen", "Bus", "Bus">>}}

Requests ==
    {ArgsOf(date, date_kind, criteria, options) :
        date \in RequestDates, date_kind \in {"DepartureTime", "ArrivalTime"},
        criteria \in {NoneEnum, SomeEnum("LowestCost")}, options \in RequestOptions}

EncInit ==
    /\ overflow_checks \in BOOLEAN
    /\ e_pc = "args" /\ e_args \in Requests /\ e_q = <<>>
    /\ e_pq = PageQueryOf(Missing, Missing, Missing, Missing, Missing, Missing)
    /\ e_sdt = NoneDT
    /\ CodecIdle /\ NormIdle /\ DurIdle /\ ModeIdle /\ CallIdle

\* transit builds the query and sends it
Encode ==
    /\ e_pc = "args"
    /\ e_q' = QueryOf(e_args)
    /\ e_pc' = "sent"
    /\ UNCHANGED <<e_args, e_pq, e_sdt, overflow_checks, codecVars, normVars, durVars,
                   modeVars, callVars>>

\* the response arrives: its pageQuery repeats the six date fields, or
\* lacks one of them
Respond ==
    /\ e_pc = "sent"
    /\ e_pq' \in {EchoOf(e_q), [EchoOf(e_q) EXCEPT !.m1 = Missing],
                  [EchoOf(e_q) EXCEPT !.hh = Missing]}
    /\ e_pc' = "echoed"
    /\ UNCHANGED <<e_args, e_q, e_sdt, overflow_checks, codecVars, normVars, durVars,
                   modeVars, callVars>>

\* the normalizer rebuilds the search timestamp
Rebuild ==
    /\ e_pc = "echoed"
    /\ LET r == build_search_datetime(e_pq, overflow_checks)
       IN  /\ e_sdt' = r.r
           /\ e_pc' = IF r.panic THEN "panic" ELSE "rebuilt"
    /\ UNCHANGED <<e_args, e_q, e_pq, overflow_checks, codecVars, normVars, durVars,
                   modeVars, callVars>>

EncNext == Encode \/ Respond \/ Rebuild

SpecEnc == EncInit /\ [][EncNext]_vars

(***************************************************************************)
(* The line and the mode of a segment                                      *)
(***************************************************************************)
MaxPieces == 2

\* what a label is written from: the keywords, a part of a keyword, other
\* text, a blank
LabelPieces ==
    {KwWalk, KwAirRoute, KwFlight, KwAirplane, KwBus, KwShuttleBus, KwHighway,
     KwFerry, KwShip, <<"kFU">>, <<"L">>, <<" ">>}

RECURSIVE Concat(_)
Concat(ss) == IF ss = <<>> THEN <<>> ELSE Head(ss) \o Concat(Tail(ss))

Labels == {Concat(ps) : ps \in SeqUpTo(LabelPieces, MaxPieces)}

\* edges whose line comes from railNameExcludingDestination, from railName
\* when the former is missing or blank, or from neither
LabelledEdges ==
    {[EdgeOf("A", Missing) EXCEPT !.railNameExcludingDestination = JString(l)] :
        l \in Labels}
      \cup {[EdgeOf("A", Missing) EXCEPT !.railNameExcludingDestination = x,
                                         !.railName = JString(l)] :
              l \in Labels, x \in {Missing, JString(<<" ">>)}}
      \cup {[EdgeOf("A", Missing) EXCEPT !.railName = x] : x \in {Missing, JNumber}}

ModeInit ==
    /\ overflow_checks = FALSE
    /\ m_pc = "edge" /\ m_cur \in LabelledEdges
    /\ m_seg = SegmentOf(NoEdge, NoEdge, NoneDT, NoneDT).seg
    /\ CodecIdle /\ NormIdle /\ DurIdle /\ EncIdle /\ CallIdle

\* one pass of the loop of build_segments_from_edges, without a search date
MakeSegment ==
    /\ m_pc = "edge"
    /\ m_seg' = SegmentOf(m_cur, EdgeOf("B", Missing), NoneDT, NoneDT).seg
    /\ m_pc' = "done"
    /\ UNCHANGED <<m_cur, overflow_checks, codecVars, normVars, durVars, encVars,
                   callVars>>

ModeNext == MakeSegment

SpecMode == ModeInit /\ [][ModeNext]_vars

(***************************************************************************)
(* The calls: suggest_places and transit                                   *)
(***************************************************************************)
JsonObjectText == <<"{", "}">>

HtmlOpen == "<html>"

ScriptOpen == "<script#__NEXT_DATA__>"

ScriptClose == "</script>"

\* the bodies a server may send: JSON, JSON after blanks, broken JSON, a page
\* with the script element, a page whose script is no JSON, a page without
\* the element, nothing
Bodies ==
    {JsonObjectText, <<" ">> \o JsonObjectText, <<"{", "x">>,
     <<HtmlOpen, ScriptOpen>> \o JsonObjectText \o <<ScriptClose>>,
     <<HtmlOpen, ScriptOpen, "x", ScriptClose>>,
     <<HtmlOpen>>, <<>>}

\* serde_json::from_str: the text is a JSON value, blanks around it allowed
IsJson(txt) == trim(txt) = JsonObjectText

\* the inner text of the first script#__NEXT_DATA__ element, if there is one
NextDataScript(input) ==
    LET open == find(input, <<ScriptOpen>>)
    IN  IF open = 0 THEN NoneStr
        ELSE LET rest == SubSeq(input, open + 1, Len(input))
                 close == find(rest, <<ScriptClose>>)
             IN  SomeStr(SubSeq(rest, 1, IF close = 0 THEN Len(rest) ELSE close - 1))

\* load_next_data: "ok" with the tree, or the error
load_next_data(input, tree) ==
    LET s == trim_start(input)
    IN  IF starts_with(s, "{")
        THEN (IF IsJson(input) THEN [tag |-> "ok", v |-> tree]
              ELSE [tag |-> "err", v |-> NoRoot])
        ELSE LET json_text == NextDataScript(input)
             IN  IF ~json_text.some THEN [tag |-> "not_found", v |-> NoRoot]
                 ELSE IF IsJson(json_text.v) THEN [tag |-> "ok", v |-> tree]
                 ELSE [tag |-> "err", v |-> NoRoot]

\* how next_data_to_transit_dto ends on a tree: "ok", "err" without a feature
\* list, "panic" when an addition overflows under overflow checks
NormalizeOutcome(tree, checks) ==
    LET sdt == build_search_datetime(tree.pageQuery, checks)
        list == as_array(tree.featureInfoList)
    IN  IF sdt.panic THEN "panic"
        ELSE IF ~list.some THEN "err"
        ELSE IF \E p \in 1..Len(list.v) : SummaryOf(list.v[p], sdt.r, checks).panic
             THEN "panic"
        ELSE "ok"

\* a call that sends the request again when it failed
AfterSend_retry(outcome) == IF outcome = "fail" THEN "call" ELSE "sent"

\* send().await?: a failure returns at once
AfterSend(outcome) == IF outcome = "fail" THEN "returned" ELSE "sent"

\* the trees a response may carry: no feature list, the route A, B, C, the
\* same with a total time that overflows
CallTrees ==
    {NoRoot}
      \cup {RootOf(GoodPageQuery([y |-> 2025, mo |-> 12, d |-> 31]),
                   Arr(<<FeatureOf(Arr(EdgesOf(ExampleTimes)), JString(tt))>>)) :
              tt \in {OneHourTwoMinutes, HugeHours}}

CallInit ==
    /\ overflow_checks \in BOOLEAN
    /\ t_pc = "call" /\ t_fn \in {"transit", "suggest_places"}
    /\ t_net \in {NetOf(send, read, body, tree, shape) :
                    send \in {"ok", "fail"}, read \in {"ok", "fail"},
                    body \in Bodies, tree \in CallTrees, shape \in BOOLEAN}
    /\ t_requests = 0 /\ t_steps = <<>> /\ t_result = "none"
    /\ CodecIdle /\ NormIdle /\ DurIdle /\ EncIdle /\ ModeIdle

\* client.get(..).query(..).send().await?
SendRequest ==
    /\ t_pc = "call"
    /\ t_requests' = t_requests + 1
    /\ t_steps' = Append(t_steps, "request")
    /\ t_pc' = AfterSend(t_net.send)
    /\ t_result' = IF t_net.send = "fail" THEN "err_transport" ELSE "none"
    /\ UNCHANGED <<t_fn, t_net, overflow_checks, codecVars, normVars, durVars,
                   encVars, modeVars>>

\* transit: response.text().await?
ReadBody ==
    /\ t_pc = "sent" /\ t_fn = "transit"
    /\ t_steps' = Append(t_steps, "read")
    /\ IF t_net.read = "fail"
       THEN t_pc' = "returned" /\ t_result' = "err_transport"
       ELSE t_pc' = "body" /\ t_result' = "none"
    /\ UNCHANGED <<t_fn, t_net, t_requests, overflow_checks, codecVars, normVars,
                   durVars, encVars, modeVars>>

\* suggest_places: response.json().await? and Ok(response)
ReadJson ==
    /\ t_pc = "sent" /\ t_fn = "suggest_places"
    /\ t_steps' = Append(t_steps, "json")
    /\ t_pc' = "returned"
    /\ t_result' = IF t_net.read = "fail" THEN "err_transport"
                   ELSE IF ~(IsJson(t_net.body) /\ t_net.suggest_shape) THEN "err_decode"
                   ELSE "ok"
    /\ UNCHANGED <<t_fn, t_net, t_requests, overflow_checks, codecVars, normVars,
                   durVars, encVars, modeVars>>

\* transit: load_next_data(&response)?
Extract ==
    /\ t_pc = "body"
    /\ t_steps' = Append(t_steps, "extract")
    /\ IF load_next_data(t_net.body, t_net.root).tag = "ok"
       THEN t_pc' = "extracted" /\ t_result' = "none"
       ELSE t_pc' = "returned" /\ t_result' = "err_extract"
    /\ UNCHANGED <<t_fn, t_net, t_requests, overflow_checks, codecVars, normVars,
                   durVars, encVars, modeVars>>

\* transit: next_data_to_transit_dto(&serde_value)? and Ok(structured)
Normalize ==
    /\ t_pc = "extracted"
    /\ t_steps' = Append(t_steps, "normalize")
    /\ t_pc' = "returned"
    /\ t_result' =
          LET r == NormalizeOutcome(load_next_data(t_net.body, t_net.root).v,
                                    overflow_checks)
          IN  IF r = "ok" THEN "ok" ELSE IF r = "err" THEN "err_normalize" ELSE "panic"
    /\ UNCHANGED <<t_fn, t_net, t_requests, overflow_checks, codecVars, normVars,
                   durVars, encVars, modeVars>>

CallNext == SendRequest \/ ReadBody \/ ReadJson \/ Extract \/ Normalize

SpecCall == CallInit /\ [][CallNext]_vars

(***************************************************************************)
(* Properties of the codec                                                 *)
(***************************************************************************)
Decoded == c_pc \in {"decoded", "reencoded", "panic"}

\* C3 as stated: for every offset-qualified timestamp x, decode(encode(x))
\* succeeds and is x with seconds and sub-seconds set to zero, same offset.
C3_RoundTripEveryOffset ==
    (c_origin = "x" /\ Decoded) =>
        /\ c_res.tag = "ok"
        /\ c_res.v = [c_x EXCEPT !.s = 0, !.ns = 0]

\* C3 amended: for every timestamp x whose offset is a whole number of
\* minutes (positive, zero or negative), decode(encode(x)) succeeds and is x
\* with seconds and sub-seconds set to zero, same offset.
C3_RoundTripWholeMinuteOffset ==
    (c_origin = "x" /\ Decoded /\ c_x.off % 60 = 0) =>
        /\ c_res.tag = "ok"
        /\ c_res.v = [c_x EXCEPT !.s = 0, !.ns = 0]

\* a timestamp with seconds, sub-seconds and a negative offset went through
\* encode and decode
C3_Witness ==
    /\ c_origin = "x" /\ c_pc = "decoded"
    /\ c_x.s = 45 /\ c_x.ns # 0 /\ c_x.off = -19800
    /\ c_res.tag = "ok"

NoZoneMarker(tp) == tp.zone = ZoneNone

InvalidCalendar(tp) ==
    \/ tp.date \in BadDates
    \/ tp.tsep # "none" /\ (tp.time \in BadTimes \/ tp.sec = 61)

MalformedSeparators(tp) ==
    \/ tp.dsep # "-"
    \/ tp.tsep = " "
    \/ tp.tsep # "none" /\ tp.csep # ":"

SameOutcome(r1, r2) == r1.tag = r2.tag /\ r1.v = r2.v

\* the canonical writing of a shorthand: 'T' and 00:00 after a bare date,
\* "+00:00" for 'Z', no seconds
CanonicalTemplate(tp) ==
    [tp EXCEPT !.tsep = "T", !.sec = -1,
               !.zone = IF tp.zone = ZoneZ THEN ZoneUtc ELSE tp.zone]

\* C10: a bare date followed by an offset decodes as that date with time
\* 00:00 and the same offset; a text ending in 'Z' decodes as the text with
\* 'Z' replaced by "+00:00"; serializing either result gives the canonical
\* date"T"HH:MM+-HH:MM text.
C10_ShorthandEqualsCanonical ==
    (c_origin = "tpl" /\ Decoded) =>
        /\ c_tpl.zone = ZoneZ =>
              c_res = parse_str(Text([c_tpl EXCEPT !.zone = ZoneUtc]))
        /\ c_tpl.tsep = "none" =>
              SameOutcome(c_res, parse_str(Text([c_tpl EXCEPT !.tsep = "T"])))
        /\ (c_pc = "reencoded" /\ (c_tpl.zone = ZoneZ \/ c_tpl.tsep = "none")) =>
              c_out = Text(CanonicalTemplate(c_tpl))

\* a bare date followed by 'Z' was decoded and serialized again
C10_Witness ==
    /\ c_origin = "tpl" /\ c_pc = "reencoded"
    /\ c_tpl.tsep = "none" /\ c_tpl.zone = ZoneZ
    /\ c_res.v.h = 0 /\ c_res.v.mi = 0 /\ c_res.v.off = 0

(***************************************************************************)
(* Properties of the normalizer                                            *)
(***************************************************************************)
\* the edge list a route was made from: empty when the feature has none
EdgeListOf(ri) ==
    IF features[ri].edgeInfoList.k = "arr" THEN features[ri].edgeInfoList.items
    ELSE <<>>

\* the time leaf of an edge
TimeLeafOf(edge) == edge.timeInfo.items[1].time

\* the leaf is a string "HH:MM": two digits, a colon, two digits, of an hour
\* 0..23 and a minute 0..59
IsBareTime(leaf) ==
    /\ leaf.k = "str" /\ Len(leaf.s) = 5 /\ leaf.s[3] = ":"
    /\ \A p \in {1, 2, 4, 5} : leaf.s[p] \in DigitSet
    /\ DigitVal(leaf.s[1]) * 10 + DigitVal(leaf.s[2]) <= 23
    /\ DigitVal(leaf.s[4]) * 10 + DigitVal(leaf.s[5]) <= 59

HourOf(leaf) == DigitVal(leaf.s[1]) * 10 + DigitVal(leaf.s[2])

MinuteOf(leaf) == DigitVal(leaf.s[4]) * 10 + DigitVal(leaf.s[5])

\* the times of a route in the order departure(edge 1), arrival(edge 2),
\* departure(edge 2), arrival(edge 3), ...
SlotsOf(es) ==
    [j \in 1..(2 * (Len(es) - 1)) |-> TimeLeafOf(es[j \div 2 + 1])]

\* the number of a day in the proleptic Gregorian calendar
DayNumber(y, mo, d) ==
    LET yy == IF mo <= 2 THEN y - 1 ELSE y
        mm == IF mo <= 2 THEN mo + 9 ELSE mo - 3
    IN  365 * yy + yy \div 4 - yy \div 100 + yy \div 400 + (153 * mm + 2) \div 5 + d

\* the first day of the month after a month
NextMonth(y, mo) ==
    IF mo = 12 THEN [y |-> y + 1, mo |-> 1, d |-> 1] ELSE [y |-> y, mo |-> mo + 1, d |-> 1]

\* the calendar day after a day: the day of the same month with the next
\* number, or the first day of the next month when the month is over
DayAfter(y, mo, d) ==
    LET first == NextMonth(y, mo)
    IN  IF DayNumber(y, mo, d) + 1 < DayNumber(first.y, first.mo, 1)
        THEN [y |-> y, mo |-> mo, d |-> d + 1]
        ELSE first

RECURSIVE ExpectedCursor(_, _, _)
\* what slot j is expected to hold: the search date for the first bare time,
\* otherwise the cursor's date, one day later when the time of day is
\* strictly earlier than the cursor's
ExpectedAt(slots, j, base) ==
    IF ~IsBareTime(slots[j]) THEN NoneDT
    ELSE LET c == ExpectedCursor(slots, j - 1, base)
             h == HourOf(slots[j])
             mi == MinuteOf(slots[j])
             date == IF ~c.some THEN [y |-> base.y, mo |-> base.mo, d |-> base.d]
                     ELSE IF h * 60 + mi < c.v.h * 60 + c.v.mi
                          THEN DayAfter(c.v.y, c.v.mo, c.v.d)
                          ELSE [y |-> c.v.y, mo |-> c.v.mo, d |-> c.v.d]
         IN  SomeDT([y |-> date.y, mo |-> date.mo, d |-> date.d, h |-> h, mi |-> mi,
                     s |-> 0, ns |-> 0, off |-> base.off])

\* the last time reconstructed among slots 1..j
ExpectedCursor(slots, j, base) ==
    IF j = 0 THEN NoneDT
    ELSE IF ExpectedAt(slots, j, base).some THEN ExpectedAt(slots, j, base)
    ELSE ExpectedCursor(slots, j - 1, base)

At(y, mo, d, h, mi) ==
    SomeDT([y |-> y, mo |-> mo, d |-> d, h |-> h, mi |-> mi, s |-> 0, ns |-> 0,
            off |-> 9 * 3600])

\* C1: with a search timestamp, the times of every route are reconstructed
\* in the order departure, arrival, departure, arrival, ... with one cursor:
\* the first gets the search date, a later one the cursor's date plus one
\* day when its time of day is strictly earlier than the cursor's and the
\* cursor's date otherwise; A 08:50, B 08:55, C 08:40 on 2025-12-31 gives
\* (12-31 08:50, 12-31 08:55) and (12-31 08:55, 2026-01-01 08:40)
C1_RolloverCursor ==
    /\ search_date_time.some =>
         \A ri \in 1..Len(routes) :
            LET slots == SlotsOf(EdgeListOf(ri))
                segs == routes[ri].segments
            IN  \A k \in 1..Len(segs) :
                   /\ segs[k].departure_time
                        = ExpectedAt(slots, 2 * k - 1, search_date_time.v)
                   /\ segs[k].arrival_time
                        = ExpectedAt(slots, 2 * k, search_date_time.v)
    /\ ( /\ Len(routes) = 1
         /\ root.pageQuery = GoodPageQuery([y |-> 2025, mo |-> 12, d |-> 31])
         /\ root.featureInfoList.items[1].edgeInfoList = Arr(EdgesOf(ExampleTimes)) )
       => /\ routes[1].segments[1].departure_time = At(2025, 12, 31, 8, 50)
          /\ routes[1].segments[1].arrival_time = At(2025, 12, 31, 8, 55)
          /\ routes[1].segments[2].departure_time = At(2025, 12, 31, 8, 55)
          /\ routes[1].segments[2].arrival_time = At(2026, 1, 1, 8, 40)

\* a returned route whose second segment leaves at the time the first one
\* arrived, on the same day, and arrives at an earlier time of day, which is
\* put on the first day of the next year
C1_Witness ==
    /\ pc = "done" /\ Len(routes) = 1 /\ Len(routes[1].segments) = 2
    /\ routes[1].segments[1].arrival_time = At(2025, 12, 31, 8, 55)
    /\ routes[1].segments[2].departure_time = At(2025, 12, 31, 8, 55)
    /\ routes[1].segments[2].arrival_time = At(2026, 1, 1, 8, 40)

\* one of the year, month, day and hour fields is missing or does not parse
AnchorFieldUnusable ==
    \/ ~as_str(root.pageQuery.y).some \/ ~parse_i32(as_str(root.pageQuery.y).v).some
    \/ \E f \in {root.pageQuery.m, root.pageQuery.d, root.pageQuery.hh} :
          ~as_str(f).some \/ ~parse_u32(as_str(f).v).some

\* every timestamp of what has been built so far is absent
NoTimestampAnywhere ==
    /\ ~search_date_time.some
    /\ \A ri \in 1..Len(routes) :
          /\ ~routes[ri].summary.departure_time.some
          /\ ~routes[ri].summary.arrival_time.some
          /\ \A k \in 1..Len(routes[ri].segments) :
                /\ ~routes[ri].segments[k].departure_time.some
                /\ ~routes[ri].segments[k].arrival_time.some

\* C2: when one of the year, month, day and hour fields is missing or does
\* not parse, the call succeeds (given a feature list), and the search
\* timestamp and every summary and segment timestamp of the result is absent
C2_NoAnchorNoTimestamps ==
    (pc # "start" /\ AnchorFieldUnusable /\ as_array(root.featureInfoList).some)
        => pc # "panic" /\ NoTimestampAnywhere

\* C5: the call fails only when the feature list is absent or not a list;
\* in every other tree no field makes it fail or abort
C5_FailsOnlyWithoutFeatureList ==
    /\ pc = "err" => ~as_array(root.featureInfoList).some
    /\ pc # "panic"

\* C6: every route has max(0, n - 1) segments, n the number of entries of
\* the feature's edge list (0 when the list is missing)
C6_SegmentCount ==
    \A ri \in 1..Len(routes) :
       LET n == IF features[ri].edgeInfoList.k = "arr"
                THEN Len(features[ri].edgeInfoList.items) ELSE 0
       IN  Len(routes[ri].segments) = IF n - 1 > 0 THEN n - 1 ELSE 0

\* a result with a route of a feature that has no edge list and a route of
\* a feature with two edges
C6_Witness ==
    /\ pc = "done" /\ Len(routes) = 2
    /\ features[1].edgeInfoList = MissingNode /\ routes[1].segments = <<>>
    /\ Len(features[2].edgeInfoList.items) = 2 /\ Len(routes[2].segments) = 1

(***************************************************************************)
(* Properties of the duration parser                                       *)
(***************************************************************************)
IsDigitRun(s) == s # <<>> /\ \A p \in 1..Len(s) : s[p] \in DigitSet

\* <digits> jikan <digits> fun, split after position a
IsHoursMinutes(s, a) ==
    /\ a >= 1 /\ a + 4 <= Len(s)
    /\ IsDigitRun(SubSeq(s, 1, a))
    /\ SubSeq(s, a + 1, a + 2) = Jikan
    /\ IsDigitRun(SubSeq(s, a + 3, Len(s) - 1))
    /\ s[Len(s)] = "fun"

IsMinutesOnly(s) == Len(s) >= 2 /\ IsDigitRun(SubSeq(s, 1, Len(s) - 1)) /\ s[Len(s)] = "fun"

IsHoursOnly(s) ==
    Len(s) >= 3 /\ IsDigitRun(SubSeq(s, 1, Len(s) - 2)) /\ SubSeq(s, Len(s) - 1, Len(s)) = Jikan

\* the result is exactly hours * 60 + minutes of two digit runs
IsExactly(res, hours, minutes) ==
    LET h == parse_u32(hours)
        m == parse_u32(minutes)
        p == MulAdd(h.v, 60, 0)
        q == Add(p.v, m.v)
    IN  /\ h.some /\ m.some /\ ~p.ovf /\ ~q.ovf
        /\ res = SomeDur(q.v)

\* C7: the duration parser gives hours * 60 + minutes for <digits> jikan
\* <digits> fun, the minutes for <digits> fun, hours * 60 for <digits>
\* jikan, and absence for every other text
C7_DurationForms ==
    d_pc # "in" /\ d_pc # "idle" =>
        /\ d_pc = "done"
        /\ IF \E a \in 1..Len(d_in) : IsHoursMinutes(d_in, a)
           THEN \E a \in 1..Len(d_in) :
                   /\ IsHoursMinutes(d_in, a)
                   /\ IsExactly(d_res, SubSeq(d_in, 1, a), SubSeq(d_in, a + 3, Len(d_in) - 1))
           ELSE IF IsMinutesOnly(d_in)
           THEN IsExactly(d_res, <<"0">>, SubSeq(d_in, 1, Len(d_in) - 1))
           ELSE IF IsHoursOnly(d_in)
           THEN IsExactly(d_res, SubSeq(d_in, 1, Len(d_in) - 2), <<"0">>)
           ELSE d_res = NoneDur

(***************************************************************************)
(* Properties of the request encoder                                       *)
(***************************************************************************)
\* the only value sent under a key
Sent(key, value) ==
    /\ Cardinality(PositionsOf(e_q, key)) = 1
    /\ \A p \in PositionsOf(e_q, key) : e_q[p].value = value

\* C8: without options the encoder sends ticket "normal", expkind "1",
\* ws "3" and "1" for each of al, shin, ex, hb, lb, sr
C8_DefaultsWithoutOptions ==
    (e_pc \in {"sent", "echoed", "rebuilt"} /\ ~e_args.options.some) =>
        /\ Sent("ticket", <<"n", "o", "r", "m", "a", "l">>)
        /\ Sent("expkind", <<"1">>)
        /\ Sent("ws", <<"3">>)
        /\ \A key \in {"al", "shin", "ex", "hb", "lb", "sr"} : Sent(key, <<"1">>)

\* a request without options has been sent
C8_Witness ==
    /\ e_pc = "sent" /\ ~e_args.options.some
    /\ Sent("ws", <<"3">>) /\ Sent("sr", <<"1">>)

RECURSIVE DigitsValue(_)
\* the number a digit run denotes
DigitsValue(s) ==
    IF s = <<>> THEN 0
    ELSE DigitsValue(SubSeq(s, 1, Len(s) - 1)) * 10 + DigitVal(s[Len(s)])

\* the only value sent under a key is a digit run that denotes n
SentNumber(key, n) ==
    /\ Cardinality(PositionsOf(e_q, key)) = 1
    /\ \A p \in PositionsOf(e_q, key) :
          IsDigitRun(e_q[p].value) /\ DigitsValue(e_q[p].value) = n

\* C9: the encoder sends year, month, day and hour as separate fields and
\* the minute as its tens digit m1 and its ones digit m2, one digit each;
\* when the response repeats the six fields, the rebuilt search timestamp
\* has the same year, month, day, hour and minute, at +09:00
C9_MinuteSplitRoundTrip ==
    /\ e_pc \in {"sent", "echoed", "rebuilt"} =>
         /\ SentNumber("y", e_args.date.y)
         /\ SentNumber("m", e_args.date.mo)
         /\ SentNumber("d", e_args.date.d)
         /\ SentNumber("hh", e_args.date.h)
         /\ \E t \in 0..5, o \in 0..9 :
               /\ e_args.date.mi = t * 10 + o
               /\ Sent("m1", <<Digits[t + 1]>>)
               /\ Sent("m2", <<Digits[o + 1]>>)
    /\ (e_pc \in {"rebuilt", "panic"} /\ e_pq = EchoOf(e_q)) =>
         /\ e_pc = "rebuilt"
         /\ e_sdt = SomeDT([y |-> e_args.date.y, mo |-> e_args.date.mo,
                            d |-> e_args.date.d, h |-> e_args.date.h,
                            mi |-> e_args.date.mi, s |-> 0, ns |-> 0,
                            off |-> 9 * 3600])

\* minute 47 of a timestamp at another offset was sent as "4" and "7", came
\* back, and was rebuilt
C9_Witness ==
    /\ e_pc = "rebuilt" /\ e_pq = EchoOf(e_q)
    /\ e_args.date.mi = 47 /\ e_args.date.off # 9 * 3600
    /\ Sent("m1", <<"4">>) /\ Sent("m2", <<"7">>)
    /\ e_sdt.some /\ e_sdt.v.mi = 47

FieldAt(segs, j) ==
    IF j % 2 = 1 THEN segs[(j + 1) \div 2].departure_time
    ELSE segs[j \div 2].arrival_time

\* how many of the slots 1..j hold a bare time
UsableUpTo(slots, j) == Cardinality({q \in 1..j : IsBareTime(slots[q])})

\* the slots without those that hold no bare time
UsableSlots(slots) == SelectSeq(slots, IsBareTime)

\* what the cursor is expected to be after the slots 1..j, the slots without
\* a bare time left out
CursorWithout(slots, j, base) ==
    IF UsableUpTo(slots, j) = 0 THEN NoneDT
    ELSE ExpectedAt(UsableSlots(slots), UsableUpTo(slots, j), base)

\* the segments are what the list of slots gives once the slots without a
\* bare time are taken out of it
AsIfUnusableLeftOut(segs, slots, base) ==
    \A j \in 1..(2 * Len(segs)) :
       FieldAt(segs, j) = IF IsBareTime(slots[j])
                          THEN ExpectedAt(UsableSlots(slots), UsableUpTo(slots, j), base)
                          ELSE NoneDT

\* C13: a time that is missing, empty, blank or not a valid HH:MM leaves its
\* field absent and the cursor as it was: every other field, and the cursor,
\* are what they would be had the entry not been there
C13_UnusableTimeKeepsCursor ==
    search_date_time.some =>
        /\ \A ri \in 1..Len(routes) :
              AsIfUnusableLeftOut(routes[ri].segments, SlotsOf(EdgeListOf(ri)),
                                  search_date_time.v)
        /\ pc = "segments" =>
              /\ AsIfUnusableLeftOut(out, SlotsOf(edges), search_date_time.v)
              /\ last_time = CursorWithout(SlotsOf(edges), 2 * i, search_date_time.v)

\* three edges at 08:55, an hour that does not exist, 08:40: the fields of
\* the middle edge are absent and 08:40 is put on the day after 08:55
C13_Witness ==
    /\ pc = "done" /\ Len(routes) = 1 /\ Len(routes[1].segments) = 2
    /\ TimeLeafOf(EdgeListOf(1)[2]) = JString(HHMM(25, 0))
    /\ routes[1].segments[1].departure_time = At(2025, 12, 31, 8, 55)
    /\ ~routes[1].segments[1].arrival_time.some
    /\ ~routes[1].segments[2].departure_time.some
    /\ routes[1].segments[2].arrival_time = At(2026, 1, 1, 8, 40)

\* the minute of a timestamp, counted from a fixed day; all timestamps of a
\* result carry the same offset
MinuteNumber(dt) == DayNumber(dt.y, dt.mo, dt.d) * 1440 + dt.h * 60 + dt.mi

\* b is not before a and less than 24 hours after it
WithinADay(a, b) ==
    /\ MinuteNumber(b) >= MinuteNumber(a)
    /\ MinuteNumber(b) - MinuteNumber(a) < 1440

\* the present fields of a list of segments, in the order departure 1,
\* arrival 1, departure 2, ..., each follow the present one before them
Monotone(segs) ==
    \A j1, j2 \in 1..(2 * Len(segs)) :
       (/\ j1 < j2
        /\ FieldAt(segs, j1).some /\ FieldAt(segs, j2).some
        /\ \A q \in (j1 + 1)..(j2 - 1) : ~FieldAt(segs, q).some)
          => WithinADay(FieldAt(segs, j1).v, FieldAt(segs, j2).v)

\* C17: the present segment timestamps of a route, in the order departure
\* 1, arrival 1, departure 2, ..., never go back and advance by less than
\* 24 hours; so does the arrival of a summary after its departure
C17_MonotoneTimeline ==
    /\ \A ri \in 1..Len(routes) :
          /\ Monotone(routes[ri].segments)
          /\ (routes[ri].summary.departure_time.some
                /\ routes[ri].summary.arrival_time.some)
               => WithinADay(routes[ri].summary.departure_time.v,
                             routes[ri].summary.arrival_time.v)
    /\ pc = "segments" => Monotone(out)

\* a route that arrives at 08:40 on the day after it left at 08:55, with a
\* summary from 08:50 to 08:40 of the next day
C17_Witness ==
    /\ pc = "done" /\ Len(routes) = 1 /\ Len(routes[1].segments) = 2
    /\ routes[1].segments[2].departure_time = At(2024, 2, 28, 8, 55)
    /\ routes[1].segments[2].arrival_time = At(2024, 2, 29, 8, 40)
    /\ routes[1].summary.departure_time = At(2024, 2, 28, 8, 50)
    /\ routes[1].summary.arrival_time = At(2024, 2, 29, 8, 40)

\* consecutive segments share the edge between them
SharedEdge(segs) ==
    \A k \in 1..(Len(segs) - 1) :
       /\ segs[k + 1].departure_time.some = segs[k].arrival_time.some
       /\ segs[k + 1].departure_time = segs[k].arrival_time
       /\ segs[k + 1].from = segs[k].to

\* C18: for consecutive segments k and k + 1 of a route, the departure of
\* k + 1 is present exactly when the arrival of k is, the two are equal, and
\* the destination name of k is the origin name of k + 1
C18_ConsecutiveSegmentsMeet ==
    /\ \A ri \in 1..Len(routes) : SharedEdge(routes[ri].segments)
    /\ pc = "segments" => SharedEdge(out)

\* a route over an edge that lists two times: it is reached and left at the
\* first of them
C18_Witness ==
    /\ pc = "done" /\ Len(routes) >= 1
    /\ \E ri \in 1..Len(routes) :
          /\ Len(routes[ri].segments) = 2
          /\ Len(EdgeListOf(ri)[2].timeInfo.items) = 2
          /\ routes[ri].segments[1].arrival_time = At(2026, 1, 1, 0, 10)
          /\ routes[ri].segments[2].departure_time = At(2026, 1, 1, 0, 10)
          /\ routes[ri].segments[1].to = <<"B">>
          /\ routes[ri].segments[2].from = <<"B">>

(***************************************************************************)
(* Properties of the mode of a segment                                     *)
(***************************************************************************)
\* the label has the keyword somewhere in it
Has(label, kw) ==
    \E a \in 1..Len(label) :
       a + Len(kw) - 1 <= Len(label) /\ SubSeq(label, a, a + Len(kw) - 1) = kw

HasAny(label, kws) == \E kw \in kws : Has(label, kw)

\* the label of a segment: nothing when the line is absent
LabelOf(seg) == IF seg.line.some THEN seg.line.v ELSE <<>>

\* C14: the mode is walk when the label has a walking keyword, else flight
\* when it has a flight keyword, else bus when it has a bus keyword, else
\* ferry when it has a ferry or ship keyword, else unknown when the label
\* is empty or absent, else rail; and it is unknown exactly when the line is
\* absent
C14_ModeByKeywordPriority ==
    m_pc = "done" =>
        /\ m_seg.mode =
              IF Has(LabelOf(m_seg), KwWalk) THEN "walk"
              ELSE IF HasAny(LabelOf(m_seg), {KwAirRoute, KwFlight, KwAirplane})
                   THEN "flight"
              ELSE IF HasAny(LabelOf(m_seg), {KwBus, KwShuttleBus, KwHighway})
                   THEN "bus"
              ELSE IF HasAny(LabelOf(m_seg), {KwFerry, KwShip}) THEN "ferry"
              ELSE IF LabelOf(m_seg) = <<>> THEN "unknown"
              ELSE "rail"
        /\ (m_seg.mode = "unknown") = ~m_seg.line.some

\* a segment whose label has a bus keyword and then a flight keyword: its
\* mode is flight
C14_Witness ==
    /\ m_pc = "done" /\ m_seg.line.some
    /\ m_seg.line.v = KwBus \o KwFlight
    /\ m_seg.mode = "flight"

(***************************************************************************)
(* Properties of the calls                                                 *)
(***************************************************************************)
\* s is the beginning of q
IsPrefix(s, q) == Len(s) <= Len(q) /\ \A p \in 1..Len(s) : s[p] = q[p]

\* the steps of a call of each function, in order
StepsOf(fn) ==
    IF fn = "transit" THEN <<"request", "read", "extract", "normalize">>
    ELSE <<"request", "json">>

Ran(step) == \E p \in 1..Len(t_steps) : t_steps[p] = step

\* C11: a call sends exactly one request and never a second one; a failed
\* request or a failed reading of the body ends the call with that error
\* before extraction; a failed extraction ends it with that error before
\* normalization; normalization runs only after both succeeded
C11_OneRequestThenInOrder ==
    /\ t_requests <= 1
    /\ t_requests = Cardinality({p \in 1..Len(t_steps) : t_steps[p] = "request"})
    /\ t_pc \in {"sent", "body", "extracted", "returned"} => t_requests = 1
    /\ IsPrefix(t_steps, StepsOf(t_fn))
    /\ Ran("extract") => t_net.send = "ok" /\ t_net.read = "ok"
    /\ Ran("normalize") =>
          /\ t_net.send = "ok" /\ t_net.read = "ok"
          /\ load_next_data(t_net.body, t_net.root).tag = "ok"
    /\ t_pc = "returned" =>
          /\ t_net.send = "fail" =>
                t_result = "err_transport" /\ t_steps = <<"request">>
          /\ (t_net.send = "ok" /\ t_net.read = "fail") =>
                t_result = "err_transport" /\ Len(t_steps) = 2
          /\ (/\ t_fn = "transit" /\ t_net.send = "ok" /\ t_net.read = "ok"
              /\ load_next_data(t_net.body, t_net.root).tag # "ok") =>
                t_result = "err_extract" /\ ~Ran("normalize")

\* a call of transit whose page has no __NEXT_DATA__ element returned the
\* extraction error after one request, without normalizing
C11_Witness ==
    /\ t_pc = "returned" /\ t_fn = "transit"
    /\ t_net.body = <<HtmlOpen>>
    /\ t_result = "err_extract"
    /\ t_requests = 1
    /\ t_steps = <<"request", "read", "extract">>

(***************************************************************************)
(* Properties of the key list of the request                               *)
(***************************************************************************)
AllKeys ==
    <<"from", "to", "y", "m", "d", "hh", "m1", "m2", "type", "s", "no",
      "ticket", "expkind", "ws", "al", "shin", "ex", "hb", "lb", "sr">>

KeysOf(q) == [p \in 1..Len(q) |-> q[p].key]

\* the means of the options, as a set
MeansOf(options) ==
    {options.available_means[p] : p \in 1..Len(options.available_means)}

\* C15: every request carries the same ordered key list, each key once; with
\* options, each of the six flags is "1" exactly when its mean is among the
\* allowed means, whatever their order and repetitions
C15_SameKeyListAlways ==
    e_pc # "args" =>
        /\ KeysOf(e_q) = AllKeys
        /\ e_args.options.some =>
              \A m \in {default_available_means[p] : p \in 1..6} :
                 \A p \in PositionsOf(e_q, AvailableMeans_as_str(m)) :
                    e_q[p].value = IF m \in MeansOf(e_args.options) THEN <<"1">>
                                   ELSE <<"0">>

(***************************************************************************)
(* Totality of decoding                                                    *)
(***************************************************************************)
\* C16: decoding a text, whatever its length and characters, gives a
\* timestamp or an error value and never aborts
C16_DecodeNeverAborts ==
    c_pc \in {"decoded", "reencoded", "panic"} =>
        c_pc # "panic" /\ c_res.tag \in {"ok", "err"}

=============================================================================
